---- MODULE Spec2Model ----
(***************************************************************************)
(* Model of the SAGE flow core: ExecutionGraph (operator registry, forward *)
(* and reverse adjacency, DFS topological sort) and StreamEngine (graph    *)
(* submission and per-graph lifecycle state).                              *)
(***************************************************************************)
EXTENDS Integers, Sequences, FiniteSets, TLC

VARIABLES operators_, adjacency_list_, reverse_adjacency_list_, next_operator_id_,
          next_graph_id_, submitted_graphs_, graph_states_, issued, call,
          oper, pcall, streams, scall, env

graphVars == <<operators_, adjacency_list_, reverse_adjacency_list_, next_operator_id_>>
engineVars == <<next_graph_id_, submitted_graphs_, graph_states_, issued>>
\* one operator under test and its last process call
operatorVars == <<oper, pcall>>
\* the DataStream builders, the last builder call and the SageFlowEnvironment
streamVars == <<streams, scall, env>>
apiVars == <<oper, pcall, streams, scall, env>>
vars == <<operators_, adjacency_list_, reverse_adjacency_list_, next_operator_id_,
          next_graph_id_, submitted_graphs_, graph_states_, issued, call,
          oper, pcall, streams, scall, env>>

\* ---------------------------------------------------------------- bounds
\* SpecGraph: operator IDs one graph hands out between two resets (also the
\* IDs connect and remove_operator are called with), entries the adjacency
\* lists hold at a time
MaxOps == 3
MaxEdges == 2
\* SpecSubmit: the same two bounds, and the graph IDs the engine hands out
SubMaxOps == 2
SubMaxEdges == 2
SubMaxGraphs == 1
\* SpecEngine: the same three bounds
EngMaxOps == 1
EngMaxEdges == 1
MaxGraphs == 2

\* SpecOperator: distinct input messages, process calls on one operator
MaxMsg == 2
MaxCalls == 2

\* SpecPipeline: builders on one engine, operators over all their graphs,
\* graph IDs the engine hands out, messages a source produces
PipeBuilders == 1
PipeMaxOps == 3
PipeMaxGraphs == 1
MaxSourceLen == 1

\* SpecStream: the same for the terminal calls of several builders
MaxBuilders == 2
StreamMaxOps == 1
StreamMaxGraphs == 2

\* ---------------------------------------------------------------- helpers
\* std::unordered_map<K, std::vector<..>>: a function whose DOMAIN is the key set
Get(m, k) == IF k \in DOMAIN m THEN m[k] ELSE <<>>

Put(m, k, v) == [x \in (DOMAIN m) \cup {k} |-> IF x = k THEN v ELSE m[x]]

Erase(m, k) == [x \in (DOMAIN m) \ {k} |-> m[x]]

EmptyMap == [x \in {} |-> <<>>]

\* std::remove + erase: drop every occurrence of id, keep the order of the rest
RECURSIVE Scrub(_, _), Scrub_FirstOnly(_, _)
Scrub_FirstOnly(s, id) ==
    IF s = <<>> THEN <<>>
    ELSE IF Head(s) = id THEN Tail(s)
         ELSE <<Head(s)>> \o Scrub_FirstOnly(Tail(s), id)
Scrub(s, id) ==
    IF s = <<>> THEN <<>>
    ELSE IF Head(s) = id THEN Scrub(Tail(s), id)
         ELSE <<Head(s)>> \o Scrub(Tail(s), id)

Count(s, x) == Cardinality({i \in 1..Len(s) : s[i] = x})

Range(s) == {s[i] : i \in 1..Len(s)}

Reverse(s) == [i \in 1..Len(s) |-> s[Len(s) + 1 - i]]

RECURSIVE SumLen(_, _)
SumLen(m, ks) ==
    IF ks = {} THEN 0
    ELSE LET k == CHOOSE x \in ks : TRUE IN Len(m[k]) + SumLen(m, ks \ {k})

\* entries held by the forward lists, and by the reverse lists
EdgeCount == SumLen(adjacency_list_, DOMAIN adjacency_list_)

RevEdgeCount == SumLen(reverse_adjacency_list_, DOMAIN reverse_adjacency_list_)

\* the orders in which a range-for over operators_ (an unordered_map) can
\* visit the keys: unspecified by the container, so every permutation
IterOrders(S) ==
    {o \in [1..Cardinality(S) -> S] : \A x \in S : \E i \in 1..Cardinality(S) : o[i] = x}

\* the last call made: operation, graph ID passed or returned, graph pointer
\* passed, whether it returned or threw, and the writes to graph_states_
NoCall == [op |-> "none", gid |-> 0, graph |-> "none", outcome |-> "ok", changes |-> <<>>]

\* no operator constructed yet / no process call made yet; the last three
\* fields are the members of LambdaSourceOperator
NoOperator == [kind |-> "none", has_function |-> FALSE, inner |-> FALSE,
               processed_count |-> 0, output_count |-> 0, error_count |-> 0,
               emitted |-> <<>>, sunk |-> <<>>,
               max_messages_ |-> 0, generated_count_ |-> 0, has_more_data_ |-> TRUE]

\* the last call on the operator: the method, the record passed to process,
\* what process returned, whether the function threw, the operator before
NoProcess == [method |-> "none", input |-> <<>>, outcome |-> "none", fn_threw |-> FALSE,
              before |-> NoOperator]

\* no builder constructed yet / no builder call made yet
NoStreams == [b \in {} |-> 0]

NoStreamCall == [op |-> "none", b |-> 0, outcome |-> "ok", engine_calls |-> <<>>,
                 op_calls |-> <<>>, changes |-> <<>>]

\* a SageFlowEnvironment just constructed: the stream lists hold entries
\* [b, null], b the builder the stored DataStream was moved from and null
\* whether its graph_ and engine_ pointers are null; crashed is set once
\* the process has been terminated
NewEnvironment == [active_streams_ |-> <<>>, submitted_streams_ |-> <<>>,
                   is_submitted_ |-> FALSE, is_running_ |-> FALSE, crashed |-> FALSE]

\* ---------------------------------------------------------------- ExecutionGraph
Init ==
    /\ operators_ = {}
    /\ adjacency_list_ = EmptyMap
    /\ reverse_adjacency_list_ = EmptyMap
    /\ next_operator_id_ = 0
    /\ next_graph_id_ = 0
    /\ submitted_graphs_ = [x \in {} |-> "g"]
    /\ graph_states_ = [x \in {} |-> "UNKNOWN"]
    /\ issued = {}
    /\ call = NoCall
    /\ oper = NoOperator
    /\ pcall = NoProcess
    /\ streams = NoStreams
    /\ env = NewEnvironment
    /\ scall = NoStreamCall

addOperator(maxOps) ==
    /\ next_operator_id_ < maxOps
    /\ LET id == next_operator_id_ IN
        /\ next_operator_id_' = id + 1
        /\ operators_' = operators_ \cup {id}
        /\ adjacency_list_' = Put(adjacency_list_, id, <<>>)
        /\ reverse_adjacency_list_' = Put(reverse_adjacency_list_, id, <<>>)
    /\ call' = NoCall
    /\ UNCHANGED engineVars
    /\ UNCHANGED apiVars

connectOperators(maxOps, maxEdges) ==
    /\ EdgeCount < maxEdges
    /\ RevEdgeCount < maxEdges
    /\ \E source \in 0..(maxOps - 1), target \in 0..(maxOps - 1) :
        /\ adjacency_list_' =
              Put(adjacency_list_, source, Append(Get(adjacency_list_, source), target))
        /\ reverse_adjacency_list_' =
              Put(reverse_adjacency_list_, target,
                  Append(Get(reverse_adjacency_list_, target), source))
    /\ call' = NoCall
    /\ UNCHANGED <<operators_, next_operator_id_>>
    /\ UNCHANGED engineVars
    /\ UNCHANGED apiVars

removeOperator(maxOps) ==
    /\ \E id \in 0..(maxOps - 1) :
        /\ operators_' = operators_ \ {id}
        /\ adjacency_list_' =
              [k \in (DOMAIN adjacency_list_) \ {id} |-> Scrub(adjacency_list_[k], id)]
        /\ reverse_adjacency_list_' =
              [k \in (DOMAIN reverse_adjacency_list_) \ {id} |->
                   Scrub(reverse_adjacency_list_[k], id)]
    /\ call' = NoCall
    /\ UNCHANGED next_operator_id_
    /\ UNCHANGED engineVars
    /\ UNCHANGED apiVars

reset ==
    /\ operators_' = {}
    /\ adjacency_list_' = EmptyMap
    /\ reverse_adjacency_list_' = EmptyMap
    /\ next_operator_id_' = 0
    /\ call' = NoCall
    /\ UNCHANGED engineVars
    /\ UNCHANGED apiVars

\* DFS state: visited / rec_stack hold the keys mapped to true,
\* topo_order is the post-order vector, cyc the boolean the util returns
DfsInit == [visited |-> {}, rec_stack |-> {}, topo_order |-> <<>>, cyc |-> FALSE]

RECURSIVE topologicalSortUtil(_, _), VisitSuccessors(_, _, _)
topologicalSortUtil(id, st) ==
    LET st1 == [st EXCEPT !.visited = @ \cup {id}, !.rec_stack = @ \cup {id}]
        r == VisitSuccessors(Get(adjacency_list_, id), 1, st1)
    IN IF r.cyc THEN r
       ELSE [r EXCEPT !.rec_stack = @ \ {id}, !.topo_order = Append(@, id)]

VisitSuccessors(succs, i, st) ==
    IF i > Len(succs) THEN st
    ELSE LET successor == succs[i] IN
         IF successor \notin st.visited
         THEN LET r == topologicalSortUtil(successor, st) IN
              IF r.cyc THEN r ELSE VisitSuccessors(succs, i + 1, r)
         ELSE IF successor \in st.rec_stack
              THEN [st EXCEPT !.cyc = TRUE]
              ELSE VisitSuccessors(succs, i + 1, st)

\* the loop "for (id : operators_) if (!visited[id]) ..." over iteration order ord
RECURSIVE DfsRoots(_, _, _)
DfsRoots(ord, i, st) ==
    IF i > Len(ord) THEN st
    ELSE IF ord[i] \notin st.visited
         THEN LET r == topologicalSortUtil(ord[i], st) IN
              IF r.cyc THEN r ELSE DfsRoots(ord, i + 1, r)
         ELSE DfsRoots(ord, i + 1, st)

\* mutant: the "return {}" on a detected cycle is lost
getTopologicalOrder_KeepsPartialOrder(ord) ==
    LET r == DfsRoots(ord, 1, DfsInit)
    IN Reverse(r.topo_order)

getTopologicalOrder(ord) ==
    LET r == DfsRoots(ord, 1, DfsInit)
    IN IF r.cyc THEN <<>> ELSE Reverse(r.topo_order)

\* mutant: the search starts only from the operators without predecessors
detectCycles_FromSourcesOnly(ord) ==
    LET roots == SelectSeq(ord, LAMBDA id : Get(reverse_adjacency_list_, id) = <<>>)
        r == DfsRoots(roots, 1, [DfsInit EXCEPT !.topo_order = <<>>])
    IN r.cyc

detectCycles(ord) ==
    LET r == DfsRoots(ord, 1, [DfsInit EXCEPT !.topo_order = <<>>])
    IN r.cyc

validate(ord) == ~detectCycles(ord)

GraphNext ==
    \/ addOperator(MaxOps)
    \/ connectOperators(MaxOps, MaxEdges)
    \/ removeOperator(MaxOps)
    \/ reset

SpecGraph == Init /\ [][GraphNext]_vars

\* ---------------------------------------------------------------- claims: ExecutionGraph
\* every ID that is a key of, or an element of, an adjacency list, or an operator
GraphIds ==
    operators_ \cup DOMAIN adjacency_list_ \cup DOMAIN reverse_adjacency_list_
      \cup UNION {Range(adjacency_list_[k]) : k \in DOMAIN adjacency_list_}
      \cup UNION {Range(reverse_adjacency_list_[k]) : k \in DOMAIN reverse_adjacency_list_}

\* the edges (a, b) of the forward adjacency
Edges == {<<a, b>> \in GraphIds \X GraphIds : Count(Get(adjacency_list_, a), b) > 0}

\* position of x in the sequence t (0 when absent)
Pos(t, x) == IF x \in Range(t) THEN CHOOSE i \in 1..Len(t) : t[i] = x ELSE 0

\* C1: after any sequence of add_operator, connect, remove_operator and reset
\* the reverse adjacency is the exact transpose of the forward adjacency: for
\* every pair (a, b), b occurs in forward[a] as often as a occurs in reverse[b].
C1_ReverseIsTranspose ==
    \A a \in GraphIds, b \in GraphIds :
        Count(Get(adjacency_list_, a), b) = Count(Get(reverse_adjacency_list_, b), a)

\* C2: on every graph on which validate() is true, topological_order() is a
\* permutation of exactly the registered operator IDs (each once, no other ID)
\* in which a comes before b for every edge (a, b).
C2_TopoOrderIsPermutation ==
    \A ord \in IterOrders(operators_) :
        validate(ord) =>
            LET t == getTopologicalOrder(ord) IN
            /\ Len(t) = Cardinality(operators_)
            /\ Range(t) = operators_
            /\ \A e \in Edges :
                  (e[1] \in operators_ /\ e[2] \in operators_) => Pos(t, e[1]) < Pos(t, e[2])

GraphRefs == {"null", "g"}

getGraphState(graph_id) ==
    IF graph_id \in DOMAIN graph_states_ THEN graph_states_[graph_id] ELSE "UNKNOWN"

isGraphRunning(graph_id) == getGraphState(graph_id) = "RUNNING"

getSubmittedGraphs == DOMAIN submitted_graphs_

\* one write "graph_states_[id] = to", remembered with the value it replaces
Change(graph_id, to) == <<graph_id, getGraphState(graph_id), to>>

\* mutant: the ID is the number of registered graphs instead of a counter
submitGraph_IdFromSize(maxGraphs) ==
    /\ next_graph_id_ < maxGraphs
    /\ \E graph \in GraphRefs, ord \in IterOrders(operators_) :
        IF graph = "null" \/ ~validate(ord)
        THEN /\ call' = [op |-> "submitGraph", gid |-> next_graph_id_, graph |-> graph,
                         outcome |-> "error", changes |-> <<>>]
             /\ UNCHANGED engineVars
        ELSE LET id == Cardinality(DOMAIN submitted_graphs_) IN
             /\ next_graph_id_' = next_graph_id_ + 1
             /\ submitted_graphs_' = Put(submitted_graphs_, id, graph)
             /\ graph_states_' = Put(graph_states_, id, "SUBMITTED")
             /\ issued' = issued \cup {id}
             /\ call' = [op |-> "submitGraph", gid |-> id, graph |-> graph, outcome |-> "ok",
                         changes |-> <<Change(id, "SUBMITTED")>>]
    /\ UNCHANGED graphVars
    /\ UNCHANGED apiVars

submitGraph(maxGraphs) ==
    /\ next_graph_id_ < maxGraphs
    /\ \E graph \in GraphRefs, ord \in IterOrders(operators_) :
        IF graph = "null" \/ ~validate(ord)
        THEN /\ call' = [op |-> "submitGraph", gid |-> next_graph_id_, graph |-> graph,
                         outcome |-> "error", changes |-> <<>>]
             /\ UNCHANGED engineVars
        ELSE LET id == next_graph_id_ IN
             /\ next_graph_id_' = id + 1
             /\ submitted_graphs_' = Put(submitted_graphs_, id, graph)
             /\ graph_states_' = Put(graph_states_, id, "SUBMITTED")
             /\ issued' = issued \cup {id}
             /\ call' = [op |-> "submitGraph", gid |-> id, graph |-> graph, outcome |-> "ok",
                         changes |-> <<Change(id, "SUBMITTED")>>]
    /\ UNCHANGED graphVars
    /\ UNCHANGED apiVars

executeGraph ==
    /\ \E graph_id \in 0..MaxGraphs, ord \in IterOrders(operators_) :
        IF graph_id \notin DOMAIN submitted_graphs_
        THEN /\ call' = [op |-> "executeGraph", gid |-> graph_id, graph |-> "none",
                         outcome |-> "error", changes |-> <<>>]
             /\ UNCHANGED engineVars
        ELSE IF submitted_graphs_[graph_id] = "null"
        THEN /\ call' = [op |-> "executeGraph", gid |-> graph_id, graph |-> "none",
                         outcome |-> "error", changes |-> <<>>]
             /\ UNCHANGED engineVars
        ELSE IF getTopologicalOrder(ord) = <<>>
        THEN \* the throw leaves through "catch (...) { throw; }": no state write
             /\ graph_states_' = Put(graph_states_, graph_id, "RUNNING")
             /\ call' = [op |-> "executeGraph", gid |-> graph_id, graph |-> "none", outcome |-> "error",
                         changes |-> <<Change(graph_id, "RUNNING")>>]
             /\ UNCHANGED <<next_graph_id_, submitted_graphs_, issued>>
        ELSE /\ graph_states_' = Put(graph_states_, graph_id, "COMPLETED")
             /\ call' = [op |-> "executeGraph", gid |-> graph_id, graph |-> "none", outcome |-> "ok",
                         changes |-> <<Change(graph_id, "RUNNING"),
                                       <<graph_id, "RUNNING", "COMPLETED">>>>]
             /\ UNCHANGED <<next_graph_id_, submitted_graphs_, issued>>
    /\ UNCHANGED graphVars
    /\ UNCHANGED apiVars

\* mutant: the "not found" test of executeGraphAsync is lost
executeGraphAsync_NoLookup ==
    /\ \E graph_id \in 0..MaxGraphs :
        /\ graph_states_' = Put(graph_states_, graph_id, "COMPLETED")
        /\ call' = [op |-> "executeGraphAsync", gid |-> graph_id, graph |-> "none", outcome |-> "ok",
                    changes |-> <<Change(graph_id, "RUNNING"),
                                  <<graph_id, "RUNNING", "COMPLETED">>>>]
        /\ UNCHANGED <<next_graph_id_, submitted_graphs_, issued>>
    /\ UNCHANGED graphVars
    /\ UNCHANGED apiVars

executeGraphAsync ==
    /\ \E graph_id \in 0..MaxGraphs :
        IF graph_id \notin DOMAIN submitted_graphs_
        THEN /\ call' = [op |-> "executeGraphAsync", gid |-> graph_id, graph |-> "none",
                         outcome |-> "error", changes |-> <<>>]
             /\ UNCHANGED engineVars
        ELSE /\ graph_states_' = Put(graph_states_, graph_id, "COMPLETED")
             /\ call' = [op |-> "executeGraphAsync", gid |-> graph_id, graph |-> "none", outcome |-> "ok",
                         changes |-> <<Change(graph_id, "RUNNING"),
                                       <<graph_id, "RUNNING", "COMPLETED">>>>]
             /\ UNCHANGED <<next_graph_id_, submitted_graphs_, issued>>
    /\ UNCHANGED graphVars
    /\ UNCHANGED apiVars

\* mutant: the "not found" early return is lost
stopGraphStates_NoLookup(graph_id) == Put(graph_states_, graph_id, "STOPPED")

\* the body of stopGraph: the map after the call and the writes it made
stopGraphStates(graph_id) ==
    IF graph_id \notin DOMAIN submitted_graphs_
    THEN graph_states_
    ELSE Put(graph_states_, graph_id, "STOPPED")

stopGraphChanges(graph_id) ==
    IF graph_id \notin DOMAIN submitted_graphs_
    THEN <<>>
    ELSE <<Change(graph_id, "STOPPED")>>

\* mutant: stopGraph raises on an ID that is not registered
stopGraph_RaisesOnUnknown ==
    /\ \E graph_id \in 0..MaxGraphs :
        /\ graph_states_' = stopGraphStates(graph_id)
        /\ call' = [op |-> "stopGraph", gid |-> graph_id, graph |-> "none",
                    outcome |-> IF graph_id \in DOMAIN submitted_graphs_ THEN "ok" ELSE "error",
                    changes |-> stopGraphChanges(graph_id)]
    /\ UNCHANGED <<next_graph_id_, submitted_graphs_, issued>>
    /\ UNCHANGED graphVars
    /\ UNCHANGED apiVars

stopGraph ==
    /\ \E graph_id \in 0..MaxGraphs :
        /\ graph_states_' = stopGraphStates(graph_id)
        /\ call' = [op |-> "stopGraph", gid |-> graph_id, graph |-> "none", outcome |-> "ok",
                    changes |-> stopGraphChanges(graph_id)]
    /\ UNCHANGED <<next_graph_id_, submitted_graphs_, issued>>
    /\ UNCHANGED graphVars
    /\ UNCHANGED apiVars

\* mutant: the lifecycle record of the graph is left in graph_states_
removeGraph_KeepsState ==
    /\ \E graph_id \in 0..MaxGraphs :
        /\ submitted_graphs_' = Erase(submitted_graphs_, graph_id)
        /\ graph_states_' = stopGraphStates(graph_id)
        /\ call' = [op |-> "removeGraph", gid |-> graph_id, graph |-> "none", outcome |-> "ok",
                    changes |-> stopGraphChanges(graph_id)]
    /\ UNCHANGED <<next_graph_id_, issued>>
    /\ UNCHANGED graphVars
    /\ UNCHANGED apiVars

removeGraph ==
    /\ \E graph_id \in 0..MaxGraphs :
        /\ submitted_graphs_' = Erase(submitted_graphs_, graph_id)
        /\ graph_states_' = Erase(stopGraphStates(graph_id), graph_id)
        /\ call' = [op |-> "removeGraph", gid |-> graph_id, graph |-> "none", outcome |-> "ok",
                    changes |-> stopGraphChanges(graph_id)]
    /\ UNCHANGED <<next_graph_id_, issued>>
    /\ UNCHANGED graphVars
    /\ UNCHANGED apiVars

EngineNext ==
    \/ addOperator(EngMaxOps)
    \/ connectOperators(EngMaxOps, EngMaxEdges)
    \/ removeOperator(EngMaxOps)
    \/ reset
    \/ submitGraph(MaxGraphs)
    \/ executeGraph
    \/ executeGraphAsync
    \/ stopGraph
    \/ removeGraph

SpecEngine == Init /\ [][EngineNext]_vars

\* graph construction and submission only
SubmitNext ==
    \/ addOperator(SubMaxOps)
    \/ connectOperators(SubMaxOps, SubMaxEdges)
    \/ removeOperator(SubMaxOps)
    \/ reset
    \/ submitGraph(SubMaxGraphs)

SpecSubmit == Init /\ [][SubmitNext]_vars

\* ---------------------------------------------------------------- claims: StreamEngine
\* the IDs reachable from the IDs of S along one or more forward edges
RECURSIVE ReachPlus(_, _)
ReachPlus(S, seen) ==
    LET nxt == UNION {Range(Get(adjacency_list_, a)) : a \in S} IN
    IF nxt \subseteq seen THEN seen ELSE ReachPlus(nxt \ seen, seen \cup nxt)

\* a directed cycle of the graph: a registered operator that reaches itself
OnCycle(a) == a \in ReachPlus({a}, {})

HasCycle == \E a \in operators_ : OnCycle(a)

C5_SubmitFreshMonotonicId ==
    /\ [][(call'.op = "submitGraph" /\ call'.outcome = "ok") =>
            /\ \A i \in issued : call'.gid > i
            /\ call'.gid \notin DOMAIN submitted_graphs_]_vars
    /\ []((call.op = "submitGraph" /\ call.outcome = "ok") =>
            getGraphState(call.gid) = "SUBMITTED")
    /\ []((call.op = "submitGraph" /\
             (call.graph = "null" \/ \E ord \in IterOrders(operators_) : ~validate(ord))) =>
            call.outcome = "error")

\* C5 witness: a submit succeeded after an earlier graph had been removed
C5_Witness ==
    /\ call.op = "submitGraph" /\ call.outcome = "ok"
    /\ \E i \in issued : i < call.gid /\ i \notin DOMAIN submitted_graphs_
    /\ getGraphState(call.gid) = "SUBMITTED"

AllowedTransitions ==
    { <<"UNKNOWN", "SUBMITTED">>, <<"SUBMITTED", "RUNNING">>, <<"RUNNING", "COMPLETED">>,
      <<"RUNNING", "STOPPED">>, <<"RUNNING", "ERROR">>, <<"SUBMITTED", "ERROR">> }

\* C6: every change of a registered graph's lifecycle state is one of
\* Unknown->Submitted, Submitted->Running, Running->Completed,
\* Running->Stopped, Running->Error, Submitted->Error.
C6_OnlyAllowedTransitions ==
    \A i \in 1..Len(call.changes) :
        call.changes[i][2] # call.changes[i][3] =>
            <<call.changes[i][2], call.changes[i][3]>> \in AllowedTransitions

\* C7: stop(graph_id) on a graph whose state is Completed or Stopped is a
\* no-op: state(graph_id) after the call equals the state before the call.
C7_StopOnTerminalIsNoOp ==
    (/\ call.op = "stopGraph"
     /\ call.changes # <<>>
     /\ call.changes[1][2] \in {"COMPLETED", "STOPPED"})
        => getGraphState(call.gid) = call.changes[1][2]

\* C8: whenever execute(graph_id) raises after it has set the state to
\* Running, the graph's state is Error when the error reaches the caller.
C8_FailedExecuteEndsInError ==
    (/\ call.op = "executeGraph"
     /\ call.outcome = "error"
     /\ call.changes # <<>>)
        => getGraphState(call.gid) = "ERROR"

\* C9: for a graph with zero operators validate() is true, submit succeeds,
\* and execute(graph_id) returns normally and leaves the graph Completed.
C9_EmptyGraphExecutes ==
    operators_ = {} =>
        /\ \A ord \in IterOrders(operators_) : validate(ord)
        /\ (call.op = "submitGraph" /\ call.graph = "g") => call.outcome = "ok"
        /\ (call.op = "executeGraph" /\ call.gid \in DOMAIN submitted_graphs_) =>
              (call.outcome = "ok" /\ getGraphState(call.gid) = "COMPLETED")

Msgs == 1..MaxMsg

\* longest response handed to a function's execute
FnMaxLen == 3

\* the responses execute is called with: messages and null pointers
FnInputs == UNION {[1..n -> 0..MaxMsg] : n \in 0..FnMaxLen}

\* what a map function makes of message m (never m itself)
Transform(m) == m + MaxMsg

\* what the user's callable does when called with a message: returns a value
\* (map: a new message, filter: true), returns nil (map: nullptr, filter:
\* false), or throws
Behaviours == [Msgs -> {"value", "nil", "throw"}]

\* the Response records process is called with: no message, a null message,
\* or one message
Inputs == {<<>>} \cup {<<m>> : m \in 0..MaxMsg}

NonNull(s) == SelectSeq(s, LAMBDA m : m # 0)

\* Operator base class counters
incrementProcessedCount(o) == [o EXCEPT !.processed_count = @ + 1]

incrementOutputCount(o) == [o EXCEPT !.output_count = @ + 1]

\* emit(0, record) for every message of outs, with incrementOutputCount each
RECURSIVE EmitEach(_, _)
EmitEach(o, outs) ==
    IF outs = <<>> THEN o
    ELSE EmitEach(incrementOutputCount([o EXCEPT !.emitted = Append(@, Head(outs))]),
                  Tail(outs))

\* MapFunction::execute: [thrown, result]; map_func_ works in place and may
\* leave the pointer null, which is added to the result all the same
RECURSIVE MapFunctionExecute(_, _, _)
MapFunctionExecute(msgs, inner, f) ==
    IF msgs = <<>> THEN [thrown |-> FALSE, result |-> <<>>]
    ELSE LET m == Head(msgs)
             rest == MapFunctionExecute(Tail(msgs), inner, f)
         IN IF inner /\ m # 0
            THEN IF f[m] = "throw" THEN [thrown |-> TRUE, result |-> <<>>]
                 ELSE IF rest.thrown THEN rest
                 ELSE [thrown |-> FALSE,
                       result |-> <<IF f[m] = "value" THEN Transform(m) ELSE 0>> \o rest.result]
            ELSE rest

\* mutant: the retained messages come out in reverse order
RECURSIVE FilterFunctionExecute_Reversed(_, _, _)
FilterFunctionExecute_Reversed(msgs, inner, f) ==
    IF msgs = <<>> THEN [thrown |-> FALSE, result |-> <<>>]
    ELSE LET m == Head(msgs)
             rest == FilterFunctionExecute_Reversed(Tail(msgs), inner, f)
         IN IF m # 0 /\ inner /\ f[m] = "throw" THEN [thrown |-> TRUE, result |-> <<>>]
            ELSE IF rest.thrown THEN rest
            ELSE IF m # 0 /\ (~inner \/ f[m] = "value")
                 THEN [thrown |-> FALSE, result |-> rest.result \o <<m>>]
                 ELSE rest

\* FilterFunction::execute: [thrown, result]
RECURSIVE FilterFunctionExecute(_, _, _)
FilterFunctionExecute(msgs, inner, f) ==
    IF msgs = <<>> THEN [thrown |-> FALSE, result |-> <<>>]
    ELSE LET m == Head(msgs)
             rest == FilterFunctionExecute(Tail(msgs), inner, f)
         IN IF m # 0 /\ inner /\ f[m] = "throw" THEN [thrown |-> TRUE, result |-> <<>>]
            ELSE IF rest.thrown THEN rest
            ELSE IF m # 0 /\ (~inner \/ f[m] = "value")
                 THEN [thrown |-> FALSE, result |-> <<m>> \o rest.result]
                 ELSE rest

\* SinkFunction::execute: [thrown, sunk] the messages handed to sink_func_
RECURSIVE SinkFunctionExecute(_, _, _)
SinkFunctionExecute(msgs, inner, f) ==
    IF msgs = <<>> THEN [thrown |-> FALSE, sunk |-> <<>>]
    ELSE LET m == Head(msgs)
             rest == SinkFunctionExecute(Tail(msgs), inner, f)
         IN IF m # 0 /\ inner
            THEN IF f[m] = "throw" THEN [thrown |-> TRUE, sunk |-> <<>>]
                 ELSE [thrown |-> rest.thrown, sunk |-> <<m>> \o rest.sunk]
            ELSE rest

\* the response passed to FilterFunction::execute once the call is over:
\* cleared on return; when the predicate throws, the messages already moved
\* into the result are null and the rest is as it was
RECURSIVE FilterLeftOnThrow(_, _, _)
FilterLeftOnThrow(msgs, inner, f) ==
    IF msgs = <<>> THEN <<>>
    ELSE LET m == Head(msgs) IN
         IF m # 0 /\ inner /\ f[m] = "throw" THEN msgs
         ELSE IF m # 0 /\ (~inner \/ f[m] = "value")
              THEN <<0>> \o FilterLeftOnThrow(Tail(msgs), inner, f)
              ELSE <<m>> \o FilterLeftOnThrow(Tail(msgs), inner, f)

FilterResponseAfter(msgs, inner, f) ==
    IF FilterFunctionExecute(msgs, inner, f).thrown
    THEN FilterLeftOnThrow(msgs, inner, f)
    ELSE <<>>

\* the same for MapFunction::execute; left is what the throwing callable
\* left in the pointer it was working on
RECURSIVE MapLeftOnThrow(_, _, _, _)
MapLeftOnThrow(msgs, inner, f, left) ==
    IF msgs = <<>> THEN <<>>
    ELSE LET m == Head(msgs) IN
         IF inner /\ m # 0
         THEN IF f[m] = "throw" THEN <<left>> \o Tail(msgs)
              ELSE <<0>> \o MapLeftOnThrow(Tail(msgs), inner, f, left)
         ELSE <<m>> \o MapLeftOnThrow(Tail(msgs), inner, f, left)

MapResponseAfter(msgs, inner, f, left) ==
    IF MapFunctionExecute(msgs, inner, f).thrown
    THEN MapLeftOnThrow(msgs, inner, f, left)
    ELSE <<>>

\* the result of one process call: outcome "true" / "false" / "throw", the
\* operator afterwards, and whether the user's callable threw
Ret(outcome, o, fn_threw) == [outcome |-> outcome, oper |-> o, fn_threw |-> fn_threw]

BoolStr(b) == IF b THEN "true" ELSE "false"

MapOperatorProcess_ClearsOnThrow(o, input, f) ==
    IF ~o.has_function THEN Ret("throw", o, FALSE)
    ELSE IF input = <<>> THEN Ret("false", o, FALSE)
    ELSE IF input[1] = 0 THEN Ret("false", o, FALSE)
    ELSE LET r == MapFunctionExecute(input, o.inner, f) IN
         IF r.thrown
         THEN Ret("throw", [o EXCEPT !.processed_count = 0, !.output_count = 0], TRUE)
         ELSE LET outs == NonNull(r.result) IN
              Ret(BoolStr(outs # <<>>), incrementProcessedCount(EmitEach(o, outs)), FALSE)
MapOperatorProcess(o, input, f) ==
    IF ~o.has_function THEN Ret("throw", o, FALSE)
    ELSE IF input = <<>> THEN Ret("false", o, FALSE)
    ELSE IF input[1] = 0 THEN Ret("false", o, FALSE)
    ELSE LET r == MapFunctionExecute(input, o.inner, f) IN
         IF r.thrown THEN Ret("throw", o, TRUE)
         ELSE LET outs == NonNull(r.result) IN
              Ret(BoolStr(outs # <<>>), incrementProcessedCount(EmitEach(o, outs)), FALSE)

\* mutant: the processed counter is advanced before the record is looked at
FilterOperatorProcess_CountsEveryCall(o, input, f) ==
    IF ~o.has_function THEN Ret("throw", o, FALSE)
    ELSE IF input = <<>> THEN Ret("false", incrementProcessedCount(o), FALSE)
    ELSE IF input[1] = 0 THEN Ret("false", incrementProcessedCount(o), FALSE)
    ELSE LET o1 == incrementProcessedCount(o)
             r == FilterFunctionExecute(input, o.inner, f) IN
         IF r.thrown THEN Ret("throw", o1, TRUE)
         ELSE LET outs == NonNull(r.result) IN
              Ret(BoolStr(outs # <<>>), EmitEach(o1, outs), FALSE)
\* FilterOperator::process
FilterOperatorProcess(o, input, f) ==
    IF ~o.has_function THEN Ret("throw", o, FALSE)
    ELSE IF input = <<>> THEN Ret("false", o, FALSE)
    ELSE IF input[1] = 0 THEN Ret("false", o, FALSE)
    ELSE LET o1 == incrementProcessedCount(o)
             r == FilterFunctionExecute(input, o.inner, f) IN
         IF r.thrown THEN Ret("throw", o1, TRUE)
         ELSE LET outs == NonNull(r.result) IN
              Ret(BoolStr(outs # <<>>), EmitEach(o1, outs), FALSE)

SinkOperatorProcess(o, input, f) ==
    IF ~o.has_function THEN Ret("throw", o, FALSE)
    ELSE IF input = <<>> THEN Ret("false", o, FALSE)
    ELSE IF input[1] = 0 THEN Ret("false", o, FALSE)
    ELSE LET r == SinkFunctionExecute(input, o.inner, f) IN
         IF r.thrown THEN Ret("throw", [o EXCEPT !.sunk = @ \o r.sunk], TRUE)
         ELSE Ret("true", incrementProcessedCount([o EXCEPT !.sunk = @ \o r.sunk]), FALSE)

\* TerminalSinkOperator::process of lambda_sinks.cpp: no try / catch; an
\* empty sink_func_ (inner false) throws std::bad_function_call when called
TerminalSinkOperatorProcess(o, input, f) ==
    LET o1 == incrementProcessedCount(o)
        msgs == NonNull(input) IN
    IF msgs = <<>> THEN Ret("true", incrementOutputCount(o1), FALSE)
    ELSE IF ~o1.inner THEN Ret("throw", o1, FALSE)
    ELSE LET r == SinkFunctionExecute(msgs, TRUE, f) IN
         IF r.thrown THEN Ret("throw", [o1 EXCEPT !.sunk = @ \o r.sunk], TRUE)
         ELSE Ret("true", incrementOutputCount([o1 EXCEPT !.sunk = @ \o r.sunk]), FALSE)

\* LambdaMapOperator::process: the callable is applied inside try / catch and
\* the transformed messages leave as one record
RECURSIVE LambdaMapCollect(_, _)
LambdaMapCollect(msgs, f) ==
    IF msgs = <<>> THEN [thrown |-> FALSE, result |-> <<>>]
    ELSE LET m == Head(msgs)
             rest == LambdaMapCollect(Tail(msgs), f)
         IN IF m # 0
            THEN IF f[m] = "throw" THEN [thrown |-> TRUE, result |-> <<>>]
                 ELSE IF rest.thrown THEN rest
                 ELSE [thrown |-> FALSE,
                       result |-> (IF f[m] = "value" THEN <<Transform(m)>> ELSE <<>>)
                                     \o rest.result]
            ELSE rest

LambdaMapOperatorProcess(o, input, f) ==
    LET o1 == incrementProcessedCount(o)
        r == LambdaMapCollect(input, f) IN
    IF r.thrown THEN Ret("false", o1, TRUE)
    ELSE IF r.result # <<>>
         THEN Ret("true", incrementOutputCount([o1 EXCEPT !.emitted = @ \o r.result]), FALSE)
         ELSE Ret("false", o1, FALSE)

\* LambdaSourceOperator::hasNext
hasNext(o) ==
    o.has_more_data_ /\ (o.max_messages_ = 0 \/ o.generated_count_ < o.max_messages_)

\* what one call of the generator yields: it throws (-1), returns nullptr (0)
\* or returns a message
Generated == (-1)..MaxMsg

\* the generator call and what follows it, the same in both source files
LambdaSourceGenerate(o, g) ==
    IF g = -1 THEN Ret("false", [o EXCEPT !.has_more_data_ = FALSE], TRUE)
    ELSE IF g = 0 THEN Ret("false", [o EXCEPT !.has_more_data_ = FALSE], FALSE)
    ELSE Ret("true",
             incrementOutputCount([o EXCEPT !.emitted = Append(@, g),
                                            !.generated_count_ = @ + 1]),
             FALSE)

\* mutant: the test of the message limit is lost
LambdaSourceOperatorProcess_NoLimit(o, g) ==
    LambdaSourceGenerate(incrementProcessedCount(o), g)
\* LambdaSourceOperator::process of lambda_source_operator.cpp: only the
\* message limit is tested before the generator is called
LambdaSourceOperatorProcess(o, g) ==
    LET o1 == incrementProcessedCount(o) IN
    IF o1.max_messages_ > 0 /\ o1.generated_count_ >= o1.max_messages_
    THEN Ret("false", [o1 EXCEPT !.has_more_data_ = FALSE], FALSE)
    ELSE LambdaSourceGenerate(o1, g)

\* LambdaSourceOperator::process of lambda_operators.cpp: has_more_data_ is
\* tested first
LambdaSourceOperatorProcess2(o, g) ==
    LET o1 == incrementProcessedCount(o) IN
    IF ~o1.has_more_data_ THEN Ret("false", o1, FALSE)
    ELSE IF o1.max_messages_ > 0 /\ o1.generated_count_ >= o1.max_messages_
    THEN Ret("false", [o1 EXCEPT !.has_more_data_ = FALSE], FALSE)
    ELSE LambdaSourceGenerate(o1, g)

\* the two LambdaSourceOperator classes, by source file
SourceKinds == {"LambdaSourceOperator", "LambdaSourceOperator (lambda_operators.cpp)"}

SourceProcess(o, g) ==
    IF o.kind = "LambdaSourceOperator" THEN LambdaSourceOperatorProcess(o, g)
    ELSE LambdaSourceOperatorProcess2(o, g)

OperatorKinds ==
    {"MapOperator", "FilterOperator", "SinkOperator", "LambdaMapOperator", "TerminalSinkOperator"}

Process(o, input, f) ==
    CASE o.kind = "MapOperator" -> MapOperatorProcess(o, input, f)
      [] o.kind = "FilterOperator" -> FilterOperatorProcess(o, input, f)
      [] o.kind = "SinkOperator" -> SinkOperatorProcess(o, input, f)
      [] o.kind = "LambdaMapOperator" -> LambdaMapOperatorProcess(o, input, f)
      [] o.kind = "TerminalSinkOperator" -> TerminalSinkOperatorProcess(o, input, f)

\* the constructors: XOperator(name) leaves the function slot empty,
\* XOperator(name, function) fills it (the function's own callable may be
\* unset); LambdaMapOperator rejects an empty callable
constructOperator ==
    /\ \E kind \in OperatorKinds, has_function \in BOOLEAN, inner \in BOOLEAN :
        /\ kind = "LambdaMapOperator" => (has_function /\ inner)
        /\ kind = "TerminalSinkOperator" => has_function
        /\ ~has_function => ~inner
        /\ oper' = [NoOperator EXCEPT !.kind = kind, !.has_function = has_function,
                                      !.inner = inner]
    /\ pcall' = NoProcess
    /\ UNCHANGED <<graphVars, engineVars, call, streamVars>>

\* LambdaSourceOperator(generator, max_messages); a null generator is rejected
constructSource ==
    /\ \E kind \in SourceKinds, max_messages \in 0..MaxCalls :
        oper' = [NoOperator EXCEPT !.kind = kind, !.has_function = TRUE, !.inner = TRUE,
                                   !.max_messages_ = max_messages]
    /\ pcall' = NoProcess
    /\ UNCHANGED <<graphVars, engineVars, call, streamVars>>

\* what the user's callable does with the message of the record, "none"
\* when the record carries no message
Verdict(input, f) ==
    IF input = <<>> THEN "none" ELSE IF input[1] = 0 THEN "none" ELSE f[input[1]]

process ==
    /\ oper.kind \in OperatorKinds
    /\ oper.processed_count < MaxCalls
    /\ Len(oper.emitted) < MaxCalls
    /\ Len(oper.sunk) < MaxCalls
    /\ \E input \in Inputs, f \in Behaviours :
        LET r == Process(oper, input, f) IN
        /\ oper' = r.oper
        /\ pcall' = [method |-> "process", input |-> input, outcome |-> r.outcome,
                     fn_threw |-> r.fn_threw, before |-> oper,
                     verdict |-> Verdict(input, f)]
    /\ UNCHANGED <<graphVars, engineVars, call, streamVars>>

\* process of a source: the input record is not read
processSource ==
    /\ oper.kind \in SourceKinds
    /\ oper.processed_count < MaxCalls
    /\ Len(oper.emitted) < MaxCalls
    /\ \E g \in Generated :
        LET r == SourceProcess(oper, g) IN
        /\ oper' = r.oper
        /\ pcall' = [method |-> "process", input |-> <<>>, outcome |-> r.outcome,
                     fn_threw |-> r.fn_threw, before |-> oper]
    /\ UNCHANGED <<graphVars, engineVars, call, streamVars>>

\* LambdaSourceOperator::open
open ==
    /\ oper.kind \in SourceKinds
    /\ oper' = [oper EXCEPT !.generated_count_ = 0, !.has_more_data_ = TRUE]
    /\ pcall' = [NoProcess EXCEPT !.method = "open", !.before = oper]
    /\ UNCHANGED <<graphVars, engineVars, call, streamVars>>

\* LambdaSourceOperator::close
close ==
    /\ oper.kind \in SourceKinds
    /\ oper' = [oper EXCEPT !.has_more_data_ = FALSE]
    /\ pcall' = [NoProcess EXCEPT !.method = "close", !.before = oper]
    /\ UNCHANGED <<graphVars, engineVars, call, streamVars>>

\* Operator::resetCounters
resetCounters ==
    /\ oper.kind # "none"
    /\ oper' = [oper EXCEPT !.processed_count = 0, !.output_count = 0, !.error_count = 0]
    /\ pcall' = [NoProcess EXCEPT !.method = "resetCounters", !.before = oper]
    /\ UNCHANGED <<graphVars, engineVars, call, streamVars>>

\* a function object and the response about to be passed to its execute:
\* built with (inner) or without a callable, f what the callable does
FunctionInit ==
    /\ operators_ = {}
    /\ adjacency_list_ = EmptyMap
    /\ reverse_adjacency_list_ = EmptyMap
    /\ next_operator_id_ = 0
    /\ next_graph_id_ = 0
    /\ submitted_graphs_ = [x \in {} |-> "g"]
    /\ graph_states_ = [x \in {} |-> "UNKNOWN"]
    /\ issued = {}
    /\ call = NoCall
    /\ oper = NoOperator
    /\ pcall \in [method : {"none"}, input : FnInputs, inner : BOOLEAN, f : Behaviours]
    /\ streams = NoStreams
    /\ env = NewEnvironment
    /\ scall = NoStreamCall

\* FilterFunction::execute(response)
executeFilter ==
    /\ pcall.method = "none"
    /\ LET r == FilterFunctionExecute(pcall.input, pcall.inner, pcall.f) IN
        pcall' = [method |-> "FilterFunction::execute", input |-> pcall.input,
                  inner |-> pcall.inner, f |-> pcall.f,
                  thrown |-> r.thrown, result |-> r.result,
                  response |-> FilterResponseAfter(pcall.input, pcall.inner, pcall.f)]
    /\ UNCHANGED <<oper, graphVars, engineVars, call, streamVars>>

\* MapFunction::execute(response)
executeMap ==
    /\ pcall.method = "none"
    /\ \E left \in 0..1 :
        LET r == MapFunctionExecute(pcall.input, pcall.inner, pcall.f) IN
        pcall' = [method |-> "MapFunction::execute", input |-> pcall.input,
                  inner |-> pcall.inner, f |-> pcall.f,
                  thrown |-> r.thrown, result |-> r.result,
                  response |-> MapResponseAfter(pcall.input, pcall.inner, pcall.f, left)]
    /\ UNCHANGED <<oper, graphVars, engineVars, call, streamVars>>

FunctionNext ==
    \/ executeFilter
    \/ executeMap

SpecFunction == FunctionInit /\ [][FunctionNext]_vars

OperatorNext ==
    \/ constructOperator
    \/ constructSource
    \/ process
    \/ processSource
    \/ open
    \/ close
    \/ resetCounters

SpecOperator == Init /\ [][OperatorNext]_vars

\* C18: process(input, slot) of the Map, Filter and Sink operators never
\* throws: with an empty function slot it returns false and leaves the
\* processed and output counters unchanged.
C18_ProcessNeverThrows ==
    (pcall.outcome # "none" /\
     pcall.before.kind \in {"MapOperator", "FilterOperator", "SinkOperator"}) =>
        /\ pcall.outcome # "throw"
        /\ ~pcall.before.has_function =>
              /\ pcall.outcome = "false"
              /\ oper.processed_count = pcall.before.processed_count
              /\ oper.output_count = pcall.before.output_count

\* C19: when the function's execute raises for one input message, process
\* returns false, the error counter grows by one and nothing is emitted for
\* that message.
C19_FunctionErrorCaptured ==
    (pcall.outcome # "none" /\ pcall.fn_threw) =>
        /\ pcall.outcome = "false"
        /\ oper.error_count = pcall.before.error_count + 1
        /\ oper.emitted = pcall.before.emitted

\* C20: connect validates endpoint existence, so in every reachable graph
\* state every ID that is a key of, or an element of, a forward or reverse
\* adjacency list is a key of the operator map.
C20_NoDanglingIds == GraphIds \subseteq operators_

\* ---------------------------------------------------------------- ExecutionGraph as a value
\* a graph object a DataStream points to: the four members of ExecutionGraph;
\* operators_ maps the ID to the operator object
EmptyGraph == [operators_ |-> [x \in {} |-> 0], adjacency_list_ |-> EmptyMap,
               reverse_adjacency_list_ |-> EmptyMap, next_operator_id_ |-> 0]

GraphAddOperator(g, op) ==
    LET id == g.next_operator_id_ IN
    [operators_ |-> Put(g.operators_, id, op),
     adjacency_list_ |-> Put(g.adjacency_list_, id, <<>>),
     reverse_adjacency_list_ |-> Put(g.reverse_adjacency_list_, id, <<>>),
     next_operator_id_ |-> id + 1]

GraphConnectOperators(g, source, target) ==
    [g EXCEPT !.adjacency_list_ = Put(@, source, Append(Get(@, source), target)),
              !.reverse_adjacency_list_ = Put(@, target, Append(Get(@, target), source))]

RECURSIVE GraphSortUtil(_, _, _), GraphVisitSuccessors(_, _, _, _)
GraphSortUtil(g, id, st) ==
    LET st1 == [st EXCEPT !.visited = @ \cup {id}, !.rec_stack = @ \cup {id}]
        r == GraphVisitSuccessors(g, Get(g.adjacency_list_, id), 1, st1)
    IN IF r.cyc THEN r
       ELSE [r EXCEPT !.rec_stack = @ \ {id}, !.topo_order = Append(@, id)]

GraphVisitSuccessors(g, succs, i, st) ==
    IF i > Len(succs) THEN st
    ELSE LET successor == succs[i] IN
         IF successor \notin st.visited
         THEN LET r == GraphSortUtil(g, successor, st) IN
              IF r.cyc THEN r ELSE GraphVisitSuccessors(g, succs, i + 1, r)
         ELSE IF successor \in st.rec_stack
              THEN [st EXCEPT !.cyc = TRUE]
              ELSE GraphVisitSuccessors(g, succs, i + 1, st)

RECURSIVE GraphDfsRoots(_, _, _, _)
GraphDfsRoots(g, ord, i, st) ==
    IF i > Len(ord) THEN st
    ELSE IF ord[i] \notin st.visited
         THEN LET r == GraphSortUtil(g, ord[i], st) IN
              IF r.cyc THEN r ELSE GraphDfsRoots(g, ord, i + 1, r)
         ELSE GraphDfsRoots(g, ord, i + 1, st)

GraphTopologicalOrder(g, ord) ==
    LET r == GraphDfsRoots(g, ord, 1, DfsInit)
    IN IF r.cyc THEN <<>> ELSE Reverse(r.topo_order)

GraphValidate(g, ord) == ~GraphDfsRoots(g, ord, 1, DfsInit).cyc

\* ---------------------------------------------------------------- StreamEngine as a value
\* the engine members, for the engine calls nested in a DataStream method
Engine == [next_graph_id_ |-> next_graph_id_, submitted_graphs_ |-> submitted_graphs_,
           graph_states_ |-> graph_states_, issued |-> issued]

EngineState(e, graph_id) ==
    IF graph_id \in DOMAIN e.graph_states_ THEN e.graph_states_[graph_id] ELSE "UNKNOWN"

\* a graph pointer is the index of the builder that holds the graph, the null
\* pointer is no builder's index
NullGraph == 0

\* the result of an engine call: the engine afterwards, whether it threw, the
\* ID returned, the writes to graph_states_, the calls made on operators
EngineRet(e, threw, id, changes, op_calls) ==
    [e |-> e, threw |-> threw, id |-> id, changes |-> changes, op_calls |-> op_calls]

EngineSubmitGraph(e, graph, valid) ==
    IF graph = NullGraph \/ ~valid THEN EngineRet(e, TRUE, -1, <<>>, <<>>)
    ELSE LET id == e.next_graph_id_ IN
         EngineRet([next_graph_id_ |-> id + 1,
                    submitted_graphs_ |-> Put(e.submitted_graphs_, id, graph),
                    graph_states_ |-> Put(e.graph_states_, id, "SUBMITTED"),
                    issued |-> e.issued \cup {id}],
                   FALSE, id, <<<<id, EngineState(e, id), "SUBMITTED">>>>, <<>>)

\* the "simple execution simulation" loop: for each ID of the order the
\* operator is looked up and, when present, a line is printed; no method of
\* the operator (open, process, close, hasNext) is called
RECURSIVE ExecutionCalls(_, _)
ExecutionCalls(g, topo_order) ==
    IF topo_order = <<>> THEN <<>>
    ELSE (IF Head(topo_order) \in DOMAIN g.operators_ THEN <<>> ELSE <<>>)
            \o ExecutionCalls(g, Tail(topo_order))

\* graphs maps a graph pointer to the graph object, ords to the order in which
\* its operators_ is iterated
EngineExecuteGraph(e, graph_id, graphs, ords) ==
    IF graph_id \notin DOMAIN e.submitted_graphs_ THEN EngineRet(e, TRUE, graph_id, <<>>, <<>>)
    ELSE LET graph == e.submitted_graphs_[graph_id] IN
         IF graph = NullGraph THEN EngineRet(e, TRUE, graph_id, <<>>, <<>>)
         ELSE LET running == [e EXCEPT !.graph_states_ = Put(@, graph_id, "RUNNING")]
                  set_running == <<graph_id, EngineState(e, graph_id), "RUNNING">>
                  topo_order == GraphTopologicalOrder(graphs[graph], ords[graph])
              IN IF topo_order = <<>>
                 THEN EngineRet(running, TRUE, graph_id, <<set_running>>, <<>>)
                 ELSE EngineRet([e EXCEPT !.graph_states_ = Put(@, graph_id, "COMPLETED")],
                                FALSE, graph_id,
                                <<set_running, <<graph_id, "RUNNING", "COMPLETED">>>>,
                                ExecutionCalls(graphs[graph], topo_order))

EngineExecuteGraphAsync(e, graph_id) ==
    IF graph_id \notin DOMAIN e.submitted_graphs_ THEN EngineRet(e, TRUE, graph_id, <<>>, <<>>)
    ELSE EngineRet([e EXCEPT !.graph_states_ = Put(@, graph_id, "COMPLETED")],
                   FALSE, graph_id,
                   <<<<graph_id, EngineState(e, graph_id), "RUNNING">>,
                     <<graph_id, "RUNNING", "COMPLETED">>>>, <<>>)

EngineStopGraph(e, graph_id) ==
    IF graph_id \notin DOMAIN e.submitted_graphs_ THEN EngineRet(e, FALSE, graph_id, <<>>, <<>>)
    ELSE EngineRet([e EXCEPT !.graph_states_ = Put(@, graph_id, "STOPPED")],
                   FALSE, graph_id, <<<<graph_id, EngineState(e, graph_id), "STOPPED">>>>, <<>>)

\* the engine members take the values of e
EngineBecomes(e) ==
    /\ next_graph_id_' = e.next_graph_id_
    /\ submitted_graphs_' = e.submitted_graphs_
    /\ graph_states_' = e.graph_states_
    /\ issued' = e.issued

\* ---------------------------------------------------------------- DataStream
\* the two DataStream classes of the source: graph_id_ is a
\* std::optional<size_t> or a size_t initialised to 0
Variants == {"optional", "size_t"}

\* the finite sequences a source produces: 1, 2, ..., n
SourceSeqs == {[i \in 1..n |-> i] : n \in 0..MaxSourceLen}

\* an operator object in a builder's graph: the messages the callable of a
\* source produces before it returns null, whether the source reports more
\* data, and the messages a sink function has been handed
SourceOp(S) == [kind |-> "source", produces |-> S, has_next |-> TRUE, received |-> <<>>]
PlainOp(kind) == [kind |-> kind, produces |-> <<>>, has_next |-> FALSE, received |-> <<>>]

\* static_cast<OperatorId>(-1)
NoOperatorId == -1

\* a DataStream just constructed over graph with the given last operator
NewDataStream(variant, graph, last_operator_id) ==
    [variant |-> variant, graph_ |-> graph, last_operator_id_ |-> last_operator_id,
     graph_id_ |-> IF variant = "optional" THEN <<>> ELSE 0, is_finalized_ |-> FALSE]

StreamOps(S) ==
    Cardinality(UNION {{<<b, id>> : id \in DOMAIN S[b].graph_.operators_} : b \in DOMAIN S})

\* "!graph_id_.has_value()" in one class, "graph_id_ == -1" on a size_t in the other
NeedsSubmit_Always(s) == TRUE
NeedsSubmit(s) ==
    IF s.variant = "optional" THEN s.graph_id_ = <<>> ELSE s.graph_id_ = -1

\* "graph_id_.has_value()" in one class, "graph_id_ != -1" in the other
HasGraphId(s) ==
    IF s.variant = "optional" THEN s.graph_id_ # <<>> ELSE s.graph_id_ # -1

GraphIdValue(s) == IF s.variant = "optional" THEN s.graph_id_[1] ELSE s.graph_id_

\* the canonical iteration order of operators_ for the graphs no call reads,
\* every iteration order for the graphs in read
RECURSIVE Ascending(_)
Ascending(ids) ==
    IF ids = {} THEN <<>>
    ELSE LET m == CHOOSE x \in ids : \A y \in ids : x <= y
         IN <<m>> \o Ascending(ids \ {m})

StreamOrders(S, read) ==
    {ords \in [DOMAIN S -> UNION {IterOrders(DOMAIN S[b].graph_.operators_) : b \in DOMAIN S}] :
        \A b \in DOMAIN S :
            IF b \in read THEN ords[b] \in IterOrders(DOMAIN S[b].graph_.operators_)
            ELSE ords[b] = Ascending(DOMAIN S[b].graph_.operators_)}

\* the builders whose graph a run started by builder b iterates: its own, and
\* the one registered under the ID it passes to the engine
RunReads(S, b) ==
    {b} \cup (IF ~NeedsSubmit(S[b]) /\ GraphIdValue(S[b]) \in DOMAIN submitted_graphs_
              THEN {submitted_graphs_[GraphIdValue(S[b])]} \ {NullGraph}
              ELSE {})

StreamGraphs(S) == [b \in DOMAIN S |-> S[b].graph_]

\* mutant: the edge is drawn from the new operator back to the last one
connectToLastOperator_Backwards(s, graph, new_operator_id) ==
    IF s.last_operator_id_ # NoOperatorId
    THEN GraphConnectOperators(graph, new_operator_id, s.last_operator_id_)
    ELSE graph

connectToLastOperator(s, graph, new_operator_id) ==
    IF s.last_operator_id_ # NoOperatorId
    THEN GraphConnectOperators(graph, s.last_operator_id_, new_operator_id)
    ELSE graph

\* addOperator followed by connectToLastOperator
AddAndConnect(s, op) ==
    connectToLastOperator(s, GraphAddOperator(s.graph_, op), s.graph_.next_operator_id_)

finalizeGraph(s, ord) ==
    IF s.is_finalized_ THEN [s |-> s, threw |-> FALSE]
    ELSE IF ~GraphValidate(s.graph_, ord) THEN [s |-> s, threw |-> TRUE]
    ELSE [s |-> [s EXCEPT !.is_finalized_ = TRUE], threw |-> FALSE]

WithGraphId(s, id) ==
    [s EXCEPT !.graph_id_ = IF s.variant = "optional" THEN <<id>> ELSE id]

\* the result of a DataStream method: the builder and the engine afterwards,
\* whether it threw, the engine calls it made, their writes to graph_states_
\* and the calls made on operators
StreamRet(s, e, threw, engine_calls, changes, op_calls) ==
    [s |-> s, e |-> e, threw |-> threw, engine_calls |-> engine_calls,
     changes |-> changes, op_calls |-> op_calls]

\* execute (async = FALSE) and executeAsync (async = TRUE) of builder b
Run(S, b, e, ords, async) ==
    LET f == finalizeGraph(S[b], ords[b]) IN
    IF f.threw THEN StreamRet(f.s, e, TRUE, <<>>, <<>>, <<>>)
    ELSE LET sub == IF NeedsSubmit(f.s)
                    THEN EngineSubmitGraph(e, b, GraphValidate(f.s.graph_, ords[b]))
                    ELSE EngineRet(e, FALSE, GraphIdValue(f.s), <<>>, <<>>)
             sub_calls == IF NeedsSubmit(f.s) THEN <<<<"submitGraph", b>>>> ELSE <<>>
         IN IF sub.threw THEN StreamRet(f.s, sub.e, TRUE, sub_calls, sub.changes, <<>>)
            ELSE LET s1 == IF NeedsSubmit(f.s) THEN WithGraphId(f.s, sub.id) ELSE f.s
                     graph_id == GraphIdValue(s1)
                     x == IF async THEN EngineExecuteGraphAsync(sub.e, graph_id)
                          ELSE EngineExecuteGraph(sub.e, graph_id, StreamGraphs(S), ords)
                 IN StreamRet(s1, x.e, x.threw,
                              sub_calls \o <<<<IF async THEN "executeGraphAsync"
                                               ELSE "executeGraph", graph_id>>>>,
                              sub.changes \o x.changes, x.op_calls)

StreamCall(op, b, r) ==
    [op |-> op, b |-> b, outcome |-> IF r.threw THEN "error" ELSE "ok",
     engine_calls |-> r.engine_calls, op_calls |-> r.op_calls, changes |-> r.changes]

\* a builder method that makes no engine call
BuildCall(op, b, threw) ==
    [op |-> op, b |-> b, outcome |-> IF threw THEN "error" ELSE "ok",
     engine_calls |-> <<>>, op_calls |-> <<>>, changes |-> <<>>]

\* a program is built with one of the two DataStream classes
SameClass(variant) == \A b \in DOMAIN streams : streams[b].variant = variant

\* DataStream(engine, engine->createGraph()): last_operator_id defaults to -1
newDataStream(maxBuilders) ==
    /\ \E b \in (1..maxBuilders) \ DOMAIN streams, variant \in Variants :
        /\ SameClass(variant)
        /\ streams' = Put(streams, b, NewDataStream(variant, EmptyGraph, NoOperatorId))
        /\ scall' = BuildCall("DataStream", b, FALSE)
    /\ UNCHANGED <<graphVars, engineVars, call, operatorVars, env>>

\* SageFlowEnvironment::fromGenerator: a new graph holding the source, and a
\* DataStream whose last operator is the source; it is pushed onto
\* active_streams_ and then moved out of the list into the return value,
\* which leaves a moved-from DataStream (null graph_ and engine_) in the list
fromGenerator(maxBuilders, maxOps) ==
    /\ StreamOps(streams) < maxOps
    /\ ~env.crashed
    /\ \E b \in (1..maxBuilders) \ DOMAIN streams, S \in SourceSeqs :
        /\ SameClass("size_t")
        /\ streams' = Put(streams, b,
                          NewDataStream("size_t", GraphAddOperator(EmptyGraph, SourceOp(S)), 0))
        /\ env' = [env EXCEPT !.active_streams_ = Append(@, [b |-> b, null |-> TRUE])]
        /\ scall' = BuildCall("fromGenerator", b, FALSE)
    /\ UNCHANGED <<graphVars, engineVars, call, operatorVars>>

from_source(maxOps) ==
    /\ StreamOps(streams) < maxOps
    /\ \E b \in DOMAIN streams, S \in SourceSeqs :
        /\ streams[b].variant = "optional"
        /\ streams' = [streams EXCEPT ![b] =
                          [@ EXCEPT !.graph_ = GraphAddOperator(@, SourceOp(S)),
                                    !.last_operator_id_ = streams[b].graph_.next_operator_id_]]
        /\ scall' = BuildCall("from_source", b, FALSE)
    /\ UNCHANGED <<graphVars, engineVars, call, operatorVars, env>>

map(maxOps) ==
    /\ StreamOps(streams) < maxOps
    /\ \E b \in DOMAIN streams :
        /\ streams' = [streams EXCEPT ![b] =
                          [@ EXCEPT !.graph_ = AddAndConnect(streams[b], PlainOp("map")),
                                    !.last_operator_id_ = streams[b].graph_.next_operator_id_]]
        /\ scall' = BuildCall("map", b, FALSE)
    /\ UNCHANGED <<graphVars, engineVars, call, operatorVars, env>>

filter(maxOps) ==
    /\ StreamOps(streams) < maxOps
    /\ \E b \in DOMAIN streams :
        /\ streams' = [streams EXCEPT ![b] =
                          [@ EXCEPT !.graph_ = AddAndConnect(streams[b], PlainOp("filter")),
                                    !.last_operator_id_ = streams[b].graph_.next_operator_id_]]
        /\ scall' = BuildCall("filter", b, FALSE)
    /\ UNCHANGED <<graphVars, engineVars, call, operatorVars, env>>

sink_SetsLast(maxOps) ==
    /\ StreamOps(streams) < maxOps
    /\ \E b \in DOMAIN streams :
        LET s1 == [streams[b] EXCEPT !.graph_ = AddAndConnect(streams[b], PlainOp("sink")),
                                     !.last_operator_id_ = streams[b].graph_.next_operator_id_]
        IN \E ord \in IterOrders(DOMAIN s1.graph_.operators_) :
            LET f == finalizeGraph(s1, ord) IN
            /\ streams' = [streams EXCEPT ![b] = f.s]
            /\ scall' = BuildCall("sink", b, f.threw)
    /\ UNCHANGED <<graphVars, engineVars, call, operatorVars, env>>
sink(maxOps) ==
    /\ StreamOps(streams) < maxOps
    /\ \E b \in DOMAIN streams :
        LET s1 == [streams[b] EXCEPT !.graph_ = AddAndConnect(streams[b], PlainOp("sink"))]
        IN \E ord \in IterOrders(DOMAIN s1.graph_.operators_) :
            LET f == finalizeGraph(s1, ord) IN
            /\ streams' = [streams EXCEPT ![b] = f.s]
            /\ scall' = BuildCall("sink", b, f.threw)
    /\ UNCHANGED <<graphVars, engineVars, call, operatorVars, env>>

execute(maxGraphs) ==
    /\ \E b \in DOMAIN streams :
       \E ords \in StreamOrders(streams, RunReads(streams, b)) :
        LET r == Run(streams, b, Engine, ords, FALSE) IN
        /\ r.e.next_graph_id_ <= maxGraphs
        /\ streams' = [streams EXCEPT ![b] = r.s]
        /\ EngineBecomes(r.e)
        /\ scall' = StreamCall("execute", b, r)
    /\ UNCHANGED <<graphVars, call, operatorVars, env>>

executeAsync(maxGraphs) ==
    /\ \E b \in DOMAIN streams :
       \E ords \in StreamOrders(streams, RunReads(streams, b)) :
        LET r == Run(streams, b, Engine, ords, TRUE) IN
        /\ r.e.next_graph_id_ <= maxGraphs
        /\ streams' = [streams EXCEPT ![b] = r.s]
        /\ EngineBecomes(r.e)
        /\ scall' = StreamCall("executeAsync", b, r)
    /\ UNCHANGED <<graphVars, call, operatorVars, env>>

stop ==
    /\ \E b \in DOMAIN streams :
        LET r == IF HasGraphId(streams[b])
                 THEN EngineStopGraph(Engine, GraphIdValue(streams[b]))
                 ELSE EngineRet(Engine, FALSE, 0, <<>>, <<>>)
        IN /\ EngineBecomes(r.e)
           /\ scall' = [op |-> "stop", b |-> b, outcome |-> "ok",
                        engine_calls |-> IF HasGraphId(streams[b])
                                         THEN <<<<"stopGraph", GraphIdValue(streams[b])>>>>
                                         ELSE <<>>,
                        op_calls |-> <<>>, changes |-> r.changes]
    /\ UNCHANGED <<graphVars, call, operatorVars, streams, env>>

\* ---------------------------------------------------------------- SageFlowEnvironment
\* what a call through the null graph_ or engine_ of a moved-from DataStream
\* can do (undefined behaviour): end the process, or carry on as if the call
\* had thrown, or as if it had returned
UndefinedOutcomes == {"crash", "error", "ok"}

\* the builders whose DataStream is held by the environment
Moved == {env.active_streams_[i].b : i \in 1..Len(env.active_streams_)}
           \cup {env.submitted_streams_[i].b : i \in 1..Len(env.submitted_streams_)}

\* addActiveStream(std::move(stream)): the DataStream of builder b, with its
\* graph, now lives in active_streams_
addActiveStream(maxStreams) ==
    /\ ~env.crashed
    /\ Len(env.active_streams_) + Len(env.submitted_streams_) < maxStreams
    /\ \E b \in (DOMAIN streams) \ Moved :
        /\ env' = [env EXCEPT !.active_streams_ = Append(@, [b |-> b, null |-> FALSE])]
        /\ scall' = BuildCall("addActiveStream", b, FALSE)
    /\ UNCHANGED <<graphVars, engineVars, call, operatorVars, streams>>

\* validateStreams: "true", "false", or "crash"; getOperatorCount on a
\* moved-from DataStream goes through the null graph_
RECURSIVE validateStreams(_, _, _, _)
validateStreams(S, list, i, ub) ==
    IF i > Len(list) THEN "true"
    ELSE IF list[i].null
         THEN IF ub = "crash" THEN "crash"
              ELSE IF ub = "error" THEN "false"
              ELSE validateStreams(S, list, i + 1, ub)
         ELSE IF DOMAIN S[list[i].b].graph_.operators_ = {} THEN "false"
              ELSE validateStreams(S, list, i + 1, ub)

\* the outcome of an environment method: the environment, the builders and
\* the engine afterwards, how it ended, and the engine calls made
EnvRet(v, S, e, outcome, engine_calls, changes, op_calls) ==
    [env |-> v, S |-> S, e |-> e, outcome |-> outcome, engine_calls |-> engine_calls,
     changes |-> changes, op_calls |-> op_calls]

\* SageFlowEnvironment::submit
EnvSubmit(v, S, e, ub) ==
    IF v.is_submitted_ THEN EnvRet(v, S, e, "error", <<>>, <<>>, <<>>)
    ELSE LET ok == validateStreams(S, v.active_streams_, 1, ub) IN
         IF ok = "crash"
         THEN EnvRet([v EXCEPT !.crashed = TRUE], S, e, "crash", <<>>, <<>>, <<>>)
         ELSE IF ok = "false" THEN EnvRet(v, S, e, "error", <<>>, <<>>, <<>>)
         ELSE EnvRet([v EXCEPT !.submitted_streams_ = v.active_streams_,
                               !.active_streams_ = <<>>,
                               !.is_submitted_ = TRUE],
                     S, e, "ok", <<>>, <<>>, <<>>)

\* a local variable of a method: value is computed once and Body reads it
Local(value, Body(_)) == CHOOSE out \in {Body(x) : x \in {value}} : TRUE

\* "for (auto& stream : list) stream.execute()" (executeAsync when async),
\* from entry i on: left at the first call that throws
RECURSIVE ExecuteStreams(_, _, _, _, _, _, _, _)
ExecuteStreams(v, S, e, list, i, ords, async, ub) ==
    IF i > Len(list) THEN EnvRet(v, S, e, "ok", <<>>, <<>>, <<>>)
    ELSE IF list[i].null
         THEN IF ub = "crash"
              THEN EnvRet([v EXCEPT !.crashed = TRUE], S, e, "crash", <<>>, <<>>, <<>>)
              ELSE IF ub = "error" THEN EnvRet(v, S, e, "error", <<>>, <<>>, <<>>)
              ELSE ExecuteStreams(v, S, e, list, i + 1, ords, async, ub)
         ELSE Local(Run(S, list[i].b, e, ords, async), LAMBDA r :
                LET S1 == [S EXCEPT ![list[i].b] = r.s] IN
                IF r.threw
                THEN EnvRet(v, S1, r.e, "error", r.engine_calls, r.changes, r.op_calls)
                ELSE Local(ExecuteStreams(v, S1, r.e, list, i + 1, ords, async, ub),
                           LAMBDA rest :
                             EnvRet(rest.env, rest.S, rest.e, rest.outcome,
                                    r.engine_calls \o rest.engine_calls,
                                    r.changes \o rest.changes,
                                    r.op_calls \o rest.op_calls)))

\* DataStream::stop of the class the environment holds
StreamStop(s, e) ==
    IF HasGraphId(s)
    THEN Local(EngineStopGraph(e, GraphIdValue(s)), LAMBDA r :
           StreamRet(s, r.e, FALSE, <<<<"stopGraph", GraphIdValue(s)>>>>, r.changes, <<>>))
    ELSE StreamRet(s, e, FALSE, <<>>, <<>>, <<>>)

\* "for (auto& stream : list) stream.stop()"
RECURSIVE StopStreams(_, _, _, _, _, _)
StopStreams(v, S, e, list, i, ub) ==
    IF i > Len(list) THEN EnvRet(v, S, e, "ok", <<>>, <<>>, <<>>)
    ELSE IF list[i].null
         THEN IF ub = "crash"
              THEN EnvRet([v EXCEPT !.crashed = TRUE], S, e, "crash", <<>>, <<>>, <<>>)
              ELSE IF ub = "error" THEN EnvRet(v, S, e, "error", <<>>, <<>>, <<>>)
              ELSE StopStreams(v, S, e, list, i + 1, ub)
         ELSE Local(StreamStop(S[list[i].b], e), LAMBDA r :
                Local(StopStreams(v, S, r.e, list, i + 1, ub), LAMBDA rest :
                  EnvRet(rest.env, rest.S, rest.e, rest.outcome,
                         r.engine_calls \o rest.engine_calls,
                         r.changes \o rest.changes, rest.op_calls)))

\* StreamEngine::stop
EngineStop(e) == e

\* is_submitted_ is tested and submit called when it is false
SubmitIfNeeded(v, S, e, ub) ==
    IF v.is_submitted_ THEN EnvRet(v, S, e, "ok", <<>>, <<>>, <<>>)
    ELSE EnvSubmit(v, S, e, ub)

\* SageFlowEnvironment::runBatch
EnvRunBatch(v, S, e, ords, ub) ==
    Local(SubmitIfNeeded(v, S, e, ub), LAMBDA sub :
      IF sub.outcome # "ok" THEN sub
      ELSE Local([sub.env EXCEPT !.is_running_ = TRUE], LAMBDA v1 :
             Local(ExecuteStreams(v1, S, e, v1.submitted_streams_, 1, ords, FALSE, ub),
                   LAMBDA x :
                     IF x.outcome # "ok" THEN x
                     ELSE [x EXCEPT !.env = [x.env EXCEPT !.is_running_ = FALSE]])))

\* SageFlowEnvironment::runStreaming
EnvRunStreaming(v, S, e, ords, ub) ==
    Local(SubmitIfNeeded(v, S, e, ub), LAMBDA sub :
      IF sub.outcome # "ok" THEN sub
      ELSE Local([sub.env EXCEPT !.is_running_ = TRUE], LAMBDA v1 :
             ExecuteStreams(v1, S, e, v1.submitted_streams_, 1, ords, TRUE, ub)))

\* SageFlowEnvironment::stop
EnvStop(v, S, e, ub) ==
    IF ~v.is_running_ THEN EnvRet(v, S, e, "ok", <<>>, <<>>, <<>>)
    ELSE Local(StopStreams(v, S, e, v.submitted_streams_, 1, ub), LAMBDA x :
           IF x.outcome # "ok" THEN x
           ELSE Local(StopStreams(v, S, x.e, v.active_streams_, 1, ub), LAMBDA y :
                  IF y.outcome # "ok"
                  THEN EnvRet(y.env, S, y.e, y.outcome, x.engine_calls \o y.engine_calls,
                              x.changes \o y.changes, <<>>)
                  ELSE EnvRet([v EXCEPT !.is_running_ = FALSE], S, EngineStop(y.e), "ok",
                              x.engine_calls \o y.engine_calls, x.changes \o y.changes,
                              <<>>)))

\* the builders left once the DataStreams stored in the lists are destroyed
Destroyed(v) ==
    {v.active_streams_[i].b : i \in {j \in 1..Len(v.active_streams_) :
                                           ~v.active_streams_[j].null}}
      \cup {v.submitted_streams_[i].b : i \in {j \in 1..Len(v.submitted_streams_) :
                                                     ~v.submitted_streams_[j].null}}

\* SageFlowEnvironment::close
EnvClose(v, S, e, ub) ==
    Local(IF v.is_running_ THEN EnvStop(v, S, e, ub)
          ELSE EnvRet(v, S, e, "ok", <<>>, <<>>, <<>>), LAMBDA x :
      IF x.outcome # "ok" THEN x
      ELSE EnvRet([x.env EXCEPT !.active_streams_ = <<>>, !.submitted_streams_ = <<>>,
                                !.is_submitted_ = FALSE],
                  [b \in (DOMAIN S) \ Destroyed(v) |-> S[b]],
                  x.e, "ok", x.engine_calls, x.changes, <<>>))

EnvCall(op, r) ==
    [op |-> op, b |-> 0, outcome |-> r.outcome, engine_calls |-> r.engine_calls,
     op_calls |-> r.op_calls, changes |-> r.changes]

EnvBecomes(op, r) ==
    /\ env' = r.env
    /\ streams' = r.S
    /\ EngineBecomes(r.e)
    /\ scall' = EnvCall(op, r)
    /\ UNCHANGED <<graphVars, call, operatorVars>>

submit ==
    /\ ~env.crashed
    /\ \E ub \in UndefinedOutcomes :
        \E r \in {EnvSubmit(env, streams, Engine, ub)} : EnvBecomes("submit", r)

runBatch ==
    /\ ~env.crashed
    /\ \E ub \in UndefinedOutcomes, ords \in StreamOrders(streams, DOMAIN streams) :
        \E r \in {EnvRunBatch(env, streams, Engine, ords, ub)} : EnvBecomes("runBatch", r)

runStreaming ==
    /\ ~env.crashed
    /\ \E ub \in UndefinedOutcomes, ords \in StreamOrders(streams, DOMAIN streams) :
        \E r \in {EnvRunStreaming(env, streams, Engine, ords, ub)} : EnvBecomes("runStreaming", r)

SageFlowEnvironmentStop ==
    /\ ~env.crashed
    /\ \E ub \in UndefinedOutcomes :
        \E r \in {EnvStop(env, streams, Engine, ub)} : EnvBecomes("stop", r)

SageFlowEnvironmentClose ==
    /\ ~env.crashed
    /\ \E ub \in UndefinedOutcomes :
        \E r \in {EnvClose(env, streams, Engine, ub)} : EnvBecomes("close", r)

EnvBuilders == 2
EnvMaxOps == 2
EnvMaxStreams == 2

\* one environment and the DataStream class it is declared with (graph_id_ a
\* size_t): streams made by fromGenerator or built by hand and handed over
\* with addActiveStream; a DataStream that was moved into the environment is
\* not used through its old handle
EnvNext ==
    \/ (newDataStream(EnvBuilders) /\ ~env.crashed /\ streams'[scall'.b].variant = "size_t")
    \/ (map(EnvMaxOps) /\ ~env.crashed /\ scall'.b \notin Moved)
    \/ fromGenerator(EnvBuilders, EnvMaxOps)
    \/ addActiveStream(EnvMaxStreams)
    \/ submit
    \/ runBatch
    \/ runStreaming
    \/ SageFlowEnvironmentStop
    \/ SageFlowEnvironmentClose

SpecEnv == Init /\ [][EnvNext]_vars

\* StreamEngine::createGraph: a new empty graph, not registered
createGraph(e) == [e |-> e, graph |-> EmptyGraph]

\* the outcome of connect / union_: the builders, the engine, whether it threw
JoinRet(S, e, threw) == [S |-> S, e |-> e, threw |-> threw]

\* mutant: a join operator fed by both last operators is added to the
\* graph of this builder before the error is raised
DataStreamConnect_Merges(S, b, other, e) ==
    LET g == GraphAddOperator(S[b].graph_, PlainOp("join"))
        id == S[b].graph_.next_operator_id_
    IN JoinRet([S EXCEPT ![b] = [@ EXCEPT !.graph_ = connectToLastOperator(S[b], g, id),
                                          !.last_operator_id_ = id]],
               e, TRUE)
\* DataStream::connect(other): one class throws at once, the other asks the
\* engine for a new graph first and drops it when it throws
DataStreamConnect(S, b, other, e) ==
    IF S[b].variant = "size_t"
    THEN LET c == createGraph(e) IN JoinRet(S, c.e, TRUE)
    ELSE JoinRet(S, e, TRUE)

\* DataStream::union_(other)
DataStreamUnion(S, b, other, e) == JoinRet(S, e, TRUE)

connect ==
    /\ \E b \in DOMAIN streams, other \in DOMAIN streams :
        LET r == DataStreamConnect(streams, b, other, Engine) IN
        /\ streams' = r.S
        /\ EngineBecomes(r.e)
        /\ scall' = BuildCall("connect", b, r.threw)
    /\ UNCHANGED <<graphVars, call, operatorVars, env>>

union_ ==
    /\ \E b \in DOMAIN streams, other \in DOMAIN streams :
        LET r == DataStreamUnion(streams, b, other, Engine) IN
        /\ streams' = r.S
        /\ EngineBecomes(r.e)
        /\ scall' = BuildCall("union_", b, r.threw)
    /\ UNCHANGED <<graphVars, call, operatorVars, env>>

\* two builders on one engine, with the joining calls
JoinBuilders == 2
JoinMaxOps == 2
JoinMaxGraphs == 1

JoinNext ==
    \/ newDataStream(JoinBuilders)
    \/ map(JoinMaxOps)
    \/ execute(JoinMaxGraphs)
    \/ connect
    \/ union_

SpecJoin == Init /\ [][JoinNext]_vars

PipelineNext ==
    \/ newDataStream(PipeBuilders)
    \/ fromGenerator(PipeBuilders, PipeMaxOps)
    \/ from_source(PipeMaxOps)
    \/ map(PipeMaxOps)
    \/ filter(PipeMaxOps)
    \/ sink(PipeMaxOps)
    \/ execute(PipeMaxGraphs)
    \/ executeAsync(PipeMaxGraphs)
    \/ stop

SpecPipeline == Init /\ [][PipelineNext]_vars

\* the builder calls alone: graphs under construction
BuildNext ==
    \/ newDataStream(PipeBuilders)
    \/ fromGenerator(PipeBuilders, PipeMaxOps)
    \/ from_source(PipeMaxOps)
    \/ map(PipeMaxOps)
    \/ filter(PipeMaxOps)
    \/ sink(PipeMaxOps)

SpecBuild == Init /\ [][BuildNext]_vars

\* the terminal calls of several builders on one engine
StreamNext ==
    \/ newDataStream(MaxBuilders)
    \/ sink(StreamMaxOps)
    \/ execute(StreamMaxGraphs)
    \/ executeAsync(StreamMaxGraphs)
    \/ stop

SpecStream == Init /\ [][StreamNext]_vars

\* ---------------------------------------------------------------- DataStream claims
\* the graph registered with the engine under graph_id
ExecutedGraph(graph_id) == streams[submitted_graphs_[graph_id]].graph_

\* the last builder call wrote state "to" for graph_id
Wrote(graph_id, to) ==
    \E k \in 1..Len(scall.changes) : scall.changes[k][1] = graph_id /\ scall.changes[k][3] = to

\* C11: in every run started by execute(graph_id), every operator of the
\* graph is opened exactly once before any of its process calls and closed
\* exactly once after them, opens follow the topological order and closes the
\* reverse order.
C11_LifecyclePairing ==
    \A i \in 1..Len(scall.engine_calls) :
        LET c == scall.engine_calls[i]
            calls == scall.op_calls
        IN (c[1] = "executeGraph" /\ Wrote(c[2], "RUNNING")) =>
            LET g == ExecutedGraph(c[2]) IN
            \A id \in DOMAIN g.operators_ :
                /\ Count(calls, <<"open", id>>) = 1
                /\ Count(calls, <<"close", id>>) = 1
                /\ Pos(calls, <<"open", id>>) < Pos(calls, <<"close", id>>)
                /\ \A j \in 1..Len(calls) :
                      calls[j] = <<"process", id>> =>
                          /\ Pos(calls, <<"open", id>>) < j
                          /\ j < Pos(calls, <<"close", id>>)
                /\ \A t \in Range(Get(g.adjacency_list_, id)) \cap DOMAIN g.operators_ :
                      /\ Pos(calls, <<"open", id>>) < Pos(calls, <<"open", t>>)
                      /\ Pos(calls, <<"close", t>>) < Pos(calls, <<"close", id>>)

\* C12: a graph is marked COMPLETED only in a state where every source
\* operator of the graph reports has_next() == false.
C12_CompletedOnlyWhenDrained ==
    \A graph_id \in DOMAIN submitted_graphs_ :
        Wrote(graph_id, "COMPLETED") =>
            \A id \in DOMAIN ExecutedGraph(graph_id).operators_ :
                ExecutedGraph(graph_id).operators_[id].kind = "source"
                    => ~ExecutedGraph(graph_id).operators_[id].has_next

\* the graph from_source(S).map(f).sink(g) builds: source 0, map 1, sink 2
IsLinearPipeline(g) ==
    /\ DOMAIN g.operators_ = {0, 1, 2}
    /\ g.operators_[0].kind = "source"
    /\ g.operators_[1].kind = "map"
    /\ g.operators_[2].kind = "sink"
    /\ Get(g.adjacency_list_, 0) = <<1>>
    /\ Get(g.adjacency_list_, 1) = <<2>>
    /\ Get(g.adjacency_list_, 2) = <<>>

\* C13: when execute() has run the graph of from_source(S).map(identity)
\* .sink(collect) to COMPLETED, the sink function has been handed exactly the
\* messages of S, in order.
C13_SinkReceivesSource ==
    \A graph_id \in DOMAIN submitted_graphs_ :
        (/\ scall.op = "execute"
         /\ Wrote(graph_id, "COMPLETED")
         /\ IsLinearPipeline(ExecutedGraph(graph_id)))
            => ExecutedGraph(graph_id).operators_[2].received
                   = ExecutedGraph(graph_id).operators_[0].produces

\* the IDs the engine returned for the graph of builder b
SubmittedIds(b) == {graph_id \in DOMAIN submitted_graphs_ : submitted_graphs_[graph_id] = b}

RunMethods == {"executeGraph", "executeGraphAsync", "stopGraph"}

\* C14: over any sequence of sink, execute, executeAsync and stop calls a
\* builder's graph is submitted at most once, the builder records the ID of
\* that submission, and every later execute, executeAsync and stop passes
\* that ID to the engine.
C14_SubmittedAtMostOnce ==
    \A b \in DOMAIN streams :
        /\ Cardinality(SubmittedIds(b)) <= 1
        /\ \A graph_id \in SubmittedIds(b) :
              /\ HasGraphId(streams[b])
              /\ GraphIdValue(streams[b]) = graph_id
              /\ scall.b = b =>
                    \A i \in 1..Len(scall.engine_calls) :
                        scall.engine_calls[i][1] \in RunMethods
                            => scall.engine_calls[i][2] = graph_id

\* a second execute() on a builder whose graph is already registered: no
\* submission, the recorded ID is passed
C14_Witness ==
    \E b \in DOMAIN streams :
        /\ scall.b = b
        /\ scall.op = "execute"
        /\ SubmittedIds(b) # {}
        /\ scall.engine_calls = <<<<"executeGraph", GraphIdValue(streams[b])>>>>

\* C15: every graph ID a builder passes to the engine's executeGraph,
\* executeGraphAsync or stopGraph is an ID the engine returned for that
\* builder's graph, and a builder call changes the state of no graph but
\* the builder's own.
C15_OwnGraphOnly ==
    /\ \A i \in 1..Len(scall.engine_calls) :
          scall.engine_calls[i][1] \in RunMethods
              => scall.engine_calls[i][2] \in SubmittedIds(scall.b)
    /\ \A k \in 1..Len(scall.changes) : scall.changes[k][1] \in SubmittedIds(scall.b)

\* C16: once a builder's graph is finalized no later call on the builder
\* adds an operator or an edge to it: the graph stays the graph that was
\* validated.
C16_FinalizedGraphFrozen ==
    [][\A b \in DOMAIN streams :
          streams[b].is_finalized_ => streams'[b].graph_ = streams[b].graph_]_vars

\* C17: map, filter or sink called while the builder's last operator ID is
\* the sentinel (no source yet) is reported as an error and adds no operator
\* to the graph.
C17_NoSourceRejected ==
    [][(/\ scall'.op \in {"map", "filter", "sink"}
        /\ streams[scall'.b].last_operator_id_ = NoOperatorId)
          => (/\ scall'.outcome = "error"
              /\ streams'[scall'.b].graph_ = streams[scall'.b].graph_)]_vars

\* ---------------------------------------------------------------- builder graph claims
\* the operators without predecessors, and those without successors
getSourceOperators(g) ==
    {id \in DOMAIN g.operators_ : g.reverse_adjacency_list_[id] = <<>>}

getSinkOperators(g) ==
    {id \in DOMAIN g.operators_ : g.adjacency_list_[id] = <<>>}

C22_AsyncSameAsExecute ==
    \A graph_id \in DOMAIN submitted_graphs_ :
        \A ords \in StreamOrders(streams, DOMAIN streams) :
            LET sync == EngineExecuteGraph(Engine, graph_id, StreamGraphs(streams), ords)
                async == EngineExecuteGraphAsync(Engine, graph_id)
            IN /\ EngineState(async.e, graph_id) = EngineState(sync.e, graph_id)
               /\ sync.threw => async.threw

\* ---------------------------------------------------------------- operator claims
\* C23: the processed, output and error counters of an operator never
\* decrease over a process call, whether it succeeds, is rejected or fails;
\* of the calls on an operator only resetCounters makes a counter smaller.
C23_CountersMonotonic ==
    [][pcall'.method \in {"process", "open", "close"} =>
          /\ oper'.processed_count >= oper.processed_count
          /\ oper'.output_count >= oper.output_count
          /\ oper'.error_count >= oper.error_count]_vars

\* a process call on an operator whose counters are positive, after a
\* call that was rejected or failed
C23_Witness ==
    /\ pcall.method = "process"
    /\ pcall.outcome \in {"false", "throw"}
    /\ pcall.before.processed_count > 0
    /\ pcall.before.output_count > 0

\* C28: when hasNext() is false at the time process is called on a source,
\* process returns false and emits nothing.
C28_ExhaustedSourceEmitsNothing ==
    (/\ pcall.method = "process"
     /\ pcall.before.kind \in SourceKinds
     /\ ~hasNext(pcall.before)) =>
        /\ pcall.outcome = "false"
        /\ oper.emitted = pcall.before.emitted
        /\ oper.output_count = pcall.before.output_count

\* ---------------------------------------------------------------- claims: ExecutionGraph, frame
\* what removeOperator(id) must leave behind: id is no operator, no key and
\* no element of any list; every other list keeps its other elements with
\* their multiplicity and order; the next ID is the same
RemovedExactly(id) ==
    /\ operators_' = operators_ \ {id}
    /\ DOMAIN adjacency_list_' = (DOMAIN adjacency_list_) \ {id}
    /\ DOMAIN reverse_adjacency_list_' = (DOMAIN reverse_adjacency_list_) \ {id}
    /\ \A k \in DOMAIN adjacency_list_' :
          adjacency_list_'[k] = SelectSeq(adjacency_list_[k], LAMBDA x : x # id)
    /\ \A k \in DOMAIN reverse_adjacency_list_' :
          reverse_adjacency_list_'[k] = SelectSeq(reverse_adjacency_list_[k], LAMBDA x : x # id)
    /\ id \notin GraphIds'
    /\ next_operator_id_' = next_operator_id_

\* C24: removeOperator(id) erases the node and every occurrence of id,
\* duplicates included, from every forward and reverse list, and changes
\* nothing else: the other operators, the other edges with their
\* multiplicity and order, and the next ID to be assigned.
C24_RemoveOperatorFrame ==
    [][removeOperator(MaxOps) => \E id \in 0..(MaxOps - 1) : RemovedExactly(id)]_vars

\* an assigned ID is gone from the whole graph while edges between the
\* remaining operators are still there
C24_Witness ==
    /\ \E id \in 0..(next_operator_id_ - 1) : id \notin GraphIds
    /\ \E a \in operators_, b \in operators_ : Count(Get(adjacency_list_, a), b) > 0
    /\ \E a \in operators_, b \in operators_ : Count(Get(reverse_adjacency_list_, a), b) > 0

\* C25: over any interleaving of addOperator, connectOperators,
\* removeOperator and reset, addOperator returns next_operator_id_ and that
\* ID is greater than every ID returned before, so the next ID to hand out
\* never goes down; right after addOperator returns id, both lists of id are
\* empty and the lists of all other operators are unchanged.
C25_IdsStrictlyIncrease ==
    [][/\ next_operator_id_' >= next_operator_id_
       /\ addOperator(MaxOps) =>
             LET id == next_operator_id_ IN
             /\ next_operator_id_' = id + 1
             /\ adjacency_list_'[id] = <<>>
             /\ reverse_adjacency_list_'[id] = <<>>
             /\ \A k \in (DOMAIN adjacency_list_) \ {id} :
                   adjacency_list_'[k] = adjacency_list_[k]
             /\ \A k \in (DOMAIN reverse_adjacency_list_) \ {id} :
                   reverse_adjacency_list_'[k] = reverse_adjacency_list_[k]]_vars

\* C26: getTopologicalOrder is deterministic for a fixed construction
\* sequence: whatever order the iteration over operators_ takes, the result
\* is the one obtained by starting the searches from the unvisited roots in
\* ascending ID order (successors are visited in connection order).
C26_TopoOrderDeterministic ==
    \A ord \in IterOrders(operators_) :
        getTopologicalOrder(ord) = getTopologicalOrder(Ascending(operators_))

\* ---------------------------------------------------------------- claims: StreamEngine, frame
\* C27: removeGraph(id) is stopGraph(id) followed by erasing the record:
\* afterwards id is not among the submitted graphs and its state is UNKNOWN,
\* the registration and state of every other graph and the next graph ID are
\* unchanged, and on an unregistered id nothing changes.
C27_RemoveGraphFrame ==
    [][call'.op = "removeGraph" =>
          LET id == call'.gid IN
          /\ call'.changes = stopGraphChanges(id)
          /\ id \notin DOMAIN submitted_graphs_'
          /\ id \notin DOMAIN graph_states_'
          /\ \A other \in (0..MaxGraphs) \ {id} :
                /\ other \in DOMAIN submitted_graphs_' <=> other \in DOMAIN submitted_graphs_
                /\ other \in DOMAIN submitted_graphs_ =>
                      submitted_graphs_'[other] = submitted_graphs_[other]
                /\ other \in DOMAIN graph_states_' <=> other \in DOMAIN graph_states_
                /\ other \in DOMAIN graph_states_ =>
                      graph_states_'[other] = graph_states_[other]
          /\ next_graph_id_' = next_graph_id_
          /\ id \notin DOMAIN submitted_graphs_ =>
                /\ submitted_graphs_' = submitted_graphs_
                /\ graph_states_' = graph_states_]_vars

\* a registered graph has just been removed while another one is registered
C27_Witness ==
    /\ call.op = "removeGraph"
    /\ call.changes # <<>>
    /\ call.gid \notin DOMAIN submitted_graphs_
    /\ DOMAIN submitted_graphs_ # {}
    /\ DOMAIN graph_states_ = DOMAIN submitted_graphs_

\* ---------------------------------------------------------------- claims: Function
\* C29: FilterFunction::execute returns exactly the non-null input messages
\* that satisfy the predicate (all of them when no predicate is set), in
\* their input order and unmodified, and leaves the input response empty.
C29_FilterReturnsSubsequence ==
    (pcall.method = "FilterFunction::execute" /\ ~pcall.thrown) =>
        /\ pcall.result =
              SelectSeq(pcall.input,
                        LAMBDA m : m # 0 /\ (~pcall.inner \/ pcall.f[m] = "value"))
        /\ pcall.response = <<>>

\* a call with a predicate that keeps two different messages and rejects
\* one, on a response that has three entries
C29_Witness ==
    /\ pcall.method = "FilterFunction::execute"
    /\ ~pcall.thrown
    /\ pcall.inner
    /\ Len(pcall.input) = 3
    /\ Len(pcall.result) = 2
    /\ pcall.result[1] # pcall.result[2]

\* C30: MapFunction::execute returns the transformed messages in input
\* order, a position whose transformation result is nil being removed: the
\* result holds no nil entry and has one entry per input with a non-nil
\* result.
C30_MapDropsNil ==
    (pcall.method = "MapFunction::execute" /\ ~pcall.thrown /\ pcall.inner) =>
        LET kept == SelectSeq(pcall.input, LAMBDA m : m # 0 /\ pcall.f[m] = "value") IN
        /\ \A i \in 1..Len(pcall.result) : pcall.result[i] # 0
        /\ pcall.result = [i \in 1..Len(kept) |-> Transform(kept[i])]

\* ---------------------------------------------------------------- claims: sink operators
SinkKinds == {"SinkOperator", "TerminalSinkOperator"}

\* C31: a sink operator never emits and never increases its output counter
\* (output_count is 0 after any sequence of process calls), and a process
\* call that returns true has handed every non-nil message of its input to
\* the sink callable, once each and in arrival order.
C31_SinkNeverEmits ==
    oper.kind \in SinkKinds =>
        /\ oper.emitted = <<>>
        /\ oper.output_count = 0
        /\ (pcall.method = "process" /\ pcall.outcome = "true" /\ pcall.before.inner) =>
              oper.sunk = pcall.before.sunk \o NonNull(pcall.input)

C33_SameKeys == DOMAIN graph_states_ = DOMAIN submitted_graphs_

\* two graphs are registered and the last call was made on an ID that is not
C33_Witness ==
    /\ call.op \in {"executeGraph", "executeGraphAsync", "stopGraph", "removeGraph"}
    /\ call.gid \notin DOMAIN submitted_graphs_
    /\ Cardinality(DOMAIN submitted_graphs_) = 2
    /\ Cardinality(DOMAIN graph_states_) = 2

\* what an engine call on an unregistered ID must leave alone
EngineUnchanged ==
    /\ submitted_graphs_' = submitted_graphs_
    /\ graph_states_' = graph_states_
    /\ next_graph_id_' = next_graph_id_

\* C34: on an ID that is not registered, executeGraph and executeGraphAsync
\* raise an error and stopGraph returns silently; in all three cases no
\* graph record or state entry is created, no other graph's state changes
\* and the next graph ID is the same.
C34_UnregisteredIdNoEffect ==
    [][(/\ call'.op \in {"executeGraph", "executeGraphAsync", "stopGraph"}
        /\ call'.gid \notin DOMAIN submitted_graphs_) =>
          /\ call'.op \in {"executeGraph", "executeGraphAsync"} => call'.outcome = "error"
          /\ call'.op = "stopGraph" => call'.outcome = "ok"
          /\ call'.changes = <<>>
          /\ EngineUnchanged]_vars

\* the last call was such a call on an unregistered ID, once on an ID that
\* was never issued and with a graph registered
C34_Witness ==
    /\ call.op \in {"executeGraph", "executeGraphAsync", "stopGraph"}
    /\ call.gid \notin DOMAIN submitted_graphs_
    /\ call.gid \notin issued
    /\ call.changes = <<>>
    /\ DOMAIN submitted_graphs_ # {}

C36_SourceRespectsLimit ==
    (oper.kind \in SourceKinds /\ oper.max_messages_ > 0) =>
        /\ oper.generated_count_ <= oper.max_messages_
        /\ oper.generated_count_ = oper.max_messages_ => ~hasNext(oper)
        /\ (pcall.method = "process" /\ oper.emitted # pcall.before.emitted) =>
              /\ pcall.before.generated_count_ < oper.max_messages_
              /\ Len(oper.emitted) = Len(pcall.before.emitted) + 1
              /\ oper.generated_count_ = pcall.before.generated_count_ + 1

\* process was called on a source that had already emitted its m messages
C36_Witness ==
    /\ oper.kind \in SourceKinds
    /\ oper.max_messages_ > 0
    /\ pcall.method = "process"
    /\ pcall.before.generated_count_ = oper.max_messages_
    /\ pcall.before.emitted # <<>>
    /\ pcall.outcome = "false"

\* ---------------------------------------------------------------- claims: SageFlowEnvironment
\* C37: every DataStream stored in active_streams_ or submitted_streams_
\* refers to a non-null graph, so that submit() can evaluate
\* getOperatorCount() on each stored stream.
C37_StoredStreamsHaveGraph ==
    /\ \A i \in 1..Len(env.active_streams_) : ~env.active_streams_[i].null
    /\ \A i \in 1..Len(env.submitted_streams_) : ~env.submitted_streams_[i].null

\* C38: over any sequence of submit, runBatch, runStreaming, stop and close:
\* a submit on a submitted environment raises and changes nothing; a submit
\* that fails validation leaves the active streams in place and
\* is_submitted_ false; is_running_ is false after runBatch ends, whether it
\* returned or raised; after close both lists are empty and is_running_ is
\* false.  Stated for the calls made while every stored stream has its
\* graph, where each call has a defined outcome.
C38_EnvironmentLifecycle ==
    [][C37_StoredStreamsHaveGraph =>
          /\ (scall'.op = "submit" /\ env.is_submitted_) =>
                (scall'.outcome = "error" /\ env' = env)
          /\ (scall'.op = "submit" /\ ~env.is_submitted_ /\ scall'.outcome = "error") =>
                (env'.active_streams_ = env.active_streams_ /\ ~env'.is_submitted_)
          /\ scall'.op = "runBatch" => ~env'.is_running_
          /\ scall'.op = "close" =>
                /\ env'.active_streams_ = <<>>
                /\ env'.submitted_streams_ = <<>>
                /\ ~env'.is_running_]_vars

\* ---------------------------------------------------------------- claims: FilterOperator counters
\* C39: for a FilterOperator with a function set, every process call adds one
\* to processed_count exactly when the record carries a non-nil message, adds
\* one to output_count exactly when that message satisfies the predicate,
\* keeps output_count <= processed_count, emits at most one message (the
\* message it was given), and returns true exactly when it emitted.
C39_FilterCounters ==
    [][(pcall'.method = "process" /\ oper.kind = "FilterOperator" /\ oper.has_function) =>
          LET input == pcall'.input
              carried == IF input = <<>> THEN FALSE ELSE input[1] # 0
              satisfied == carried /\ (~oper.inner \/ pcall'.verdict = "value")
          IN /\ oper'.processed_count = oper.processed_count + (IF carried THEN 1 ELSE 0)
             /\ oper'.output_count = oper.output_count + (IF satisfied THEN 1 ELSE 0)
             /\ oper'.output_count <= oper'.processed_count
             /\ oper'.emitted = oper.emitted \o (IF satisfied THEN <<input[1]>> ELSE <<>>)
             /\ (pcall'.outcome = "true") <=> (oper'.emitted # oper.emitted)]_vars

\* C39 witness: a filter that was handed two messages, kept the first and
\* dropped the second
C39_Witness ==
    /\ oper.kind = "FilterOperator" /\ oper.has_function /\ oper.inner
    /\ pcall.method = "process" /\ pcall.outcome = "false" /\ pcall.verdict = "nil"
    /\ oper.processed_count = 2
    /\ oper.output_count = 1
    /\ Len(oper.emitted) = 1

====
